---- MODULE Spec2Model ----
(***************************************************************************)
(* Model of minion-swarm: the mailbox store (minion_swarm/watcher.py,      *)
(* CommsWatcher over a shared SQLite file) and the per-agent supervisor    *)
(* loop (minion_swarm/daemon.py and claude_swarm/daemon.py, AgentDaemon).  *)
(*                                                                         *)
(* Spec          the store under concurrent callers, one caller per name   *)
(* SpecSameName  the store with two callers sharing one agent name         *)
(* SpecDaemon    one supervisor (any loop variant) with its environment    *)
(* SpecLive      the store-reading supervisors, store answering, no        *)
(*               shutdown, with the scheduling fairness of the process     *)
(* SpecRun       one invocation of the agent command, step by step         *)
(* SpecStop      one supervisor with the time its waits take               *)
(* SpecRestart   supervisor runs one after another over one state file     *)
(* SpecBuffer    the rolling buffer and the calls made on it               *)
(* SpecCalls     the store call by call while time passes: register, pop   *)
(* SpecRegister  register_agent with any arguments, again and again        *)
(* SpecCount     unread_count against sends and pops                       *)
(* SpecSends     two concurrent senders                                    *)
(* SpecWait      wait_for_update against the observer thread's events      *)
(* SpecStream    the lines of one invocation rendered for the console      *)
(* SpecMirror    the console mirror of one invocation and its cap          *)
(* SpecSnapshots the store-reading supervisor with every snapshot written  *)
(* SpecPrompt    the prompts built for dequeued messages                   *)
(* SpecAlert     the failure alerts of a supervisor with a configured role *)
(* SpecStore     the six operations of the store called by two processes   *)
(***************************************************************************)
EXTENDS Integers, Sequences, FiniteSets, TLC

\* ------------------------------------------------------------------ bounds
\* rows the messages table may hold in a run
MaxMsgs == 3

\* consecutive failures followed in a run
MaxFailures == 3

\* messages the other processes send in a run of SpecDaemon, of SpecLive
MaxInbox == 2
MaxLiveInbox == 4

\* alert rows the supervisor writes in a run
MaxAlerts == 1

\* --------------------------------------------------------------- constants
Procs == {"p1", "p2"}

\* The supervisor as a caller of the store, next to the processes of Procs.
Supervisor == "supervisor"
AgentNames == {"alice", "bob"}
Senders == {"lead"}
Names == AgentNames \cup Senders
Contents == {"do X"}
\* SQL NULL / Python None
NULL == "NULL"
\* the broadcast sentinel of messages.to_agent
Broadcast == "all"
\* no row in the agents table for a name
NoEntry == [absent |-> TRUE]
\* fetchone() returned None
NoRow == [id |-> 0, is_broadcast |-> FALSE]
\* no call of a CommsWatcher method has returned yet
NoResult == [caller |-> "none", op |-> "none", args |-> <<>>, value |-> NULL, flip |-> FALSE]

VARIABLES
    messages,         \* table messages: row i has id i
    broadcast_reads,  \* table broadcast_reads: set of <<agent_name, message_id>>
    agents,           \* table agents: name -> entry or NoEntry
    now,              \* the clock read by utc_now_iso()
    agentOf,          \* caller -> CommsWatcher.agent_name
    pc,               \* caller -> position inside the CommsWatcher call it is making
    pop_now,          \* caller or supervisor -> local now of its pop_next_message
    row,              \* caller -> the row its SELECT fetched
    direct,           \* caller -> the count unread_count's first SELECT fetched
    returned,         \* caller -> ids pop_next_message returned to it, in order
    lateFor,          \* <<name, id>>: broadcast row id was inserted before name registered
    variant,          \* which run loop: claude_swarm run, minion_swarm watcher or poll mode
    provider,         \* agent_cfg.provider
    poll_script,      \* POLL_SCRIPT.exists()
    dpc,              \* the supervisor's position in run()
    stop_event,       \* AgentDaemon._stop_event
    signalled,        \* a SIGTERM/SIGINT reached _handle_signal
            \* the store answers (FALSE: unavailable or locked past the timeout)
    store_failed,     \* a store call of the supervisor raised
    raised,           \* an exception is unwinding run()
    consecutive_failures,
    last_error,
    resume_ready,
    inject_history_next_turn,
    buffer_nonempty,  \* len(self.buffer) > 0
    message,          \* id of the message being processed, 0 for none
    lead,             \* local lead of _alert_lead: the recipient it found
    cmd,              \* the command of the invocation in flight
    attempts,         \* invocations made for the current prompt, with their results
    handed,           \* ids of the messages whose processing started, in order
    state_file,       \* the persisted snapshot
    change_signal,    \* CommsWatcher._change_signal
    rpc,              \* the position inside _run_command
    proc,             \* the child process: none, running, closed (stdout closed), exited
    returncode,       \* the exit status of the child once it has exited
    written,          \* the lines the child wrote to its stdout, in order
    pipe,             \* lines written and not yet read by the reader thread
    reader,           \* the reader thread: none, reading, done
    queue,            \* q, the queue.Queue between the reader thread and the control loop
    appended,         \* lines passed to self.buffer.append by this invocation
    stream_log,       \* lines written to the agent's stream log by this invocation
    timed_out,        \* local timed_out of _run_command
    compaction_detected,  \* local compaction_detected of _run_command
    exit_code,        \* local exit_code of _run_command
    signals,          \* signals _run_command sent to the child, in order
    waited,           \* seconds the supervisor has spent in its current wait or sleep
    max_chars,        \* RollingBuffer.max_chars
    chunks,           \* RollingBuffer._chunks
    total_chars,      \* RollingBuffer._total_chars
    history,          \* every text passed to RollingBuffer.append, in order
    snap,             \* what the last call of RollingBuffer.snapshot returned
    ret,              \* the last call of a CommsWatcher method that returned, and its value
    events,           \* file events the observer thread has delivered since the last clear
    rendered,         \* the calls of _render_stream_line in an invocation: line, text, flag
    console,          \* what _run_command has printed of the rendered text
    displayed_chars,  \* _run_command's displayed_chars
    hidden_chars,     \* _run_command's hidden_chars
    snapshots,        \* the calls of _write_state in a run, in order: payload and extras
    agent_cfg,        \* the fields of agent_cfg the prompt builders read
    prompt            \* the prompt built for the message being processed

storeVars == <<messages, broadcast_reads, agents, now>>
ghostVars == <<lateFor>>
callerVars == <<agentOf, direct, pc, pop_now, row, returned>>
daemonVars == <<variant, provider, lead, poll_script, dpc, stop_event, signalled,
                store_failed, raised, consecutive_failures, last_error, resume_ready,
                inject_history_next_turn, buffer_nonempty, message, cmd, attempts,
                handed, state_file, change_signal>>
runVars == <<rpc, proc, returncode, written, pipe, reader, queue, appended, stream_log,
             timed_out, compaction_detected, exit_code, signals>>
bufferVars == <<max_chars, chunks, total_chars, history, snap>>
callVars == <<ret, events>>
streamVars == <<rendered, console, displayed_chars, hidden_chars>>
extraVars == <<waited, max_chars, chunks, total_chars, history, snap, ret, events,
               rendered, console, displayed_chars, hidden_chars, snapshots,
               agent_cfg, prompt>>
vars == <<messages, broadcast_reads, agents, now, agentOf, direct, pc, pop_now, row, returned,
          lateFor,
          variant, provider, lead, poll_script, dpc, stop_event, signalled,
          store_failed, raised, consecutive_failures, last_error, resume_ready,
          inject_history_next_turn, buffer_nonempty, message, cmd, attempts,
          handed, state_file, change_signal,
          rpc, proc, returncode, written, pipe, reader, queue, appended, stream_log,
          timed_out, compaction_detected, exit_code, signals, waited,
          max_chars, chunks, total_chars, history, snap, ret, events,
          rendered, console, displayed_chars, hidden_chars, snapshots, agent_cfg, prompt>>

\* ------------------------------------------------------------------- store

\* A row of table messages as send_message inserts it.
MessageRow(id, from_agent, to_agent, content, is_cc, cc_original_to) ==
    [id |-> id, from_agent |-> from_agent, to_agent |-> to_agent,
     content |-> content, timestamp |-> now, read_flag |-> 0,
     is_cc |-> is_cc, cc_original_to |-> cc_original_to]

\* utc_now_iso(): datetime.now(timezone.utc).isoformat(), the text kept in the
\* timestamp column for the clock reading t (32 characters; a reading past 9
\* is not needed).
IsoFormat(t) == "2026-01-01T00:00:0" \o ToString(t) \o ".000001+00:00"

\* The WHERE clauses of the two SELECT branches of pop_next_message.
DirectUnread(a, m) == m.to_agent = a /\ m.read_flag = 0
BroadcastUnread(a, m) == m.to_agent = Broadcast /\ <<a, m.id>> \notin broadcast_reads
Eligible(a, m) == DirectUnread(a, m) \/ BroadcastUnread(a, m)

EligibleIds(a) == {i \in 1..Len(messages) : Eligible(a, messages[i])}

Min(S) == CHOOSE x \in S : \A y \in S : x <= y
Max(S) == CHOOSE x \in S : \A y \in S : x >= y

\* ORDER BY id ASC LIMIT 1 over the UNION ALL of the two branches.
SelectRowDesc(a) ==
    IF EligibleIds(a) = {} THEN NoRow
    ELSE LET i == Max(EligibleIds(a))
         IN [id |-> i, is_broadcast |-> ~DirectUnread(a, messages[i])]

SelectRow(a) ==
    IF EligibleIds(a) = {} THEN NoRow
    ELSE LET i == Min(EligibleIds(a))
         IN [id |-> i, is_broadcast |-> ~DirectUnread(a, messages[i])]

\* A queue that deletes the row it hands out.
SetReadFlagDeletes(msgs, id) == SelectSeq(msgs, LAMBDA m : m.id # id)

\* UPDATE messages SET read_flag = 1 WHERE id = ?
SetReadFlag(msgs, id) ==
    [i \in 1..Len(msgs) |-> IF msgs[i].id = id THEN [msgs[i] EXCEPT !.read_flag = 1]
                                              ELSE msgs[i]]

\* The consume branch of pop_next_message: a marker for a broadcast row,
\* read_flag = 1 for a direct row.
MarkMessagesAlways(r) == SetReadFlag(messages, r.id)

MarkMessages(r) == IF r.is_broadcast THEN messages ELSE SetReadFlag(messages, r.id)

MarkReadsShared(a, r) ==
    IF r.is_broadcast THEN broadcast_reads \cup {<<n, r.id>> : n \in AgentNames}
    ELSE broadcast_reads

MarkReads(a, r) ==
    IF r.is_broadcast THEN broadcast_reads \cup {<<a, r.id>>} ELSE broadcast_reads

\* UPDATE agents SET last_seen = ?, last_inbox_check = ? WHERE name = ?
\* with (now, now, self.agent_name), now being the caller's local.
TouchInbox(a, t) ==
    IF agents[a] = NoEntry THEN agents
    ELSE [agents EXCEPT ![a] = [@ EXCEPT !.last_seen = t, !.last_inbox_check = t]]

\* INSERT ... ON CONFLICT(name) DO UPDATE of register_agent.
Coalesce(x, y) == IF x # NULL THEN x ELSE y

UpsertReplace(a, role, description, status) ==
    [agents EXCEPT ![a] = [registered_at |-> now, last_seen |-> now,
                           last_inbox_check |-> now, role |-> role,
                           description |-> description, status |-> status]]

Upsert(a, role, description, status) ==
    IF agents[a] = NoEntry
    THEN [agents EXCEPT ![a] = [registered_at |-> now, last_seen |-> now,
                                last_inbox_check |-> now, role |-> role,
                                description |-> description, status |-> status]]
    ELSE [agents EXCEPT ![a] = [@ EXCEPT !.last_seen = now,
                                         !.role = Coalesce(role, @),
                                         !.description = Coalesce(description, @),
                                         !.status = status]]

\* The rows one send_message call appends: the primary, then the cc copy.
CcContent(content, to_agent) == content \o "\n\n[CC] originally to: " \o to_agent

CcTruthy(cc) == cc # NULL /\ cc # ""

SentRowsNoCopyFlag(from_agent, to_agent, content, cc) ==
    LET id == Len(messages) + 1
        primary == MessageRow(id, from_agent, to_agent, content, 0, NULL)
    IN IF CcTruthy(cc)
       THEN <<primary, MessageRow(id + 1, from_agent, cc, content, 0, NULL)>>
       ELSE <<primary>>

SentRows(from_agent, to_agent, content, cc) ==
    LET id == Len(messages) + 1
        primary == MessageRow(id, from_agent, to_agent, content, 0, NULL)
    IN IF CcTruthy(cc)
       THEN <<primary, MessageRow(id + 1, from_agent, cc,
                                  CcContent(content, to_agent), 1, to_agent)>>
       ELSE <<primary>>

\* ----------------------------------------------------------- store actions

\* CommsWatcher.register_agent, called as the supervisor calls it.
RegisterAgent(p) ==
    /\ pc[p] = "idle"
    /\ agents[agentOf[p]] = NoEntry
    /\ agents' = Upsert(agentOf[p], "coder", "daemon agent", "online")
    /\ UNCHANGED <<messages, broadcast_reads, now, callerVars, ghostVars>>

\* CommsWatcher.send_message: one transaction.
SendMessage(from_agent, to_agent, content, cc) ==
    LET rows == SentRows(from_agent, to_agent, content, cc)
    IN /\ messages' = messages \o rows
       /\ lateFor' = lateFor \cup
              {<<n, rows[k].id>> : n \in {a \in AgentNames : agents[a] = NoEntry},
                                   k \in {j \in 1..Len(rows) : rows[j].to_agent = Broadcast}}
       /\ UNCHANGED <<broadcast_reads, agents, now, callerVars>>

\* pop_next_message, first statement: now = utc_now_iso(), the one reading
\* of the clock the call takes.
PopEnter(p) ==
    /\ pc[p] = "idle"
    /\ pop_now' = [pop_now EXCEPT ![p] = now]
    /\ pc' = [pc EXCEPT ![p] = "entered"]
    /\ UNCHANGED <<storeVars, agentOf, direct, row, returned, ghostVars>>

\* pop_next_message, the SELECT. It runs before any transaction is open
\* (sqlite3 opens one only at the first INSERT/UPDATE), so no lock is held
\* when it returns.
PopSelect(p) ==
    /\ pc[p] = "entered"
    /\ row' = [row EXCEPT ![p] = SelectRow(agentOf[p])]
    /\ pc' = [pc EXCEPT ![p] = IF SelectRow(agentOf[p]) = NoRow THEN "empty"
                                                             ELSE "selected"]
    /\ UNCHANGED <<storeVars, agentOf, direct, pop_now, returned, ghostVars>>

\* pop_next_message, row is None: touch the registry entry, return None.
PopEmpty(p) ==
    /\ pc[p] = "empty"
    /\ agents' = TouchInbox(agentOf[p], pop_now[p])
    /\ pc' = [pc EXCEPT ![p] = "idle"]
    /\ row' = [row EXCEPT ![p] = NoRow]
    /\ pop_now' = [pop_now EXCEPT ![p] = 0]
    /\ UNCHANGED <<messages, broadcast_reads, now, agentOf, direct, returned, ghostVars>>

\* pop_next_message, row found: mark it, touch the registry entry, commit,
\* return the message.
PopMark(p) ==
    /\ pc[p] = "selected"
    /\ messages' = MarkMessages(row[p])
    /\ broadcast_reads' = MarkReads(agentOf[p], row[p])
    /\ agents' = TouchInbox(agentOf[p], pop_now[p])
    /\ returned' = [returned EXCEPT ![p] = Append(@, row[p].id)]
    /\ pc' = [pc EXCEPT ![p] = "idle"]
    /\ row' = [row EXCEPT ![p] = NoRow]
    /\ pop_now' = [pop_now EXCEPT ![p] = 0]
    /\ UNCHANGED <<now, agentOf, direct, ghostVars>>

\* pop_next_message, the write waits for the lock longer than the
\* connection's timeout: sqlite3.OperationalError, nothing written or returned.
PopLocked(p) ==
    /\ pc[p] \in {"selected", "empty"}
    /\ pc' = [pc EXCEPT ![p] = "idle"]
    /\ row' = [row EXCEPT ![p] = NoRow]
    /\ pop_now' = [pop_now EXCEPT ![p] = 0]
    /\ UNCHANGED <<storeVars, agentOf, direct, returned, ghostVars>>

StoreInit ==
    /\ messages = <<>>
    /\ broadcast_reads = {}
    /\ agents = [n \in Names |-> NoEntry]
    /\ now = 0

CallerInit ==
    /\ pc = [p \in Procs |-> "idle"]
    /\ pop_now = [c \in Procs \cup {Supervisor} |-> 0]
    /\ row = [p \in Procs |-> NoRow]
    /\ direct = [p \in Procs |-> 0]
    /\ returned = [p \in Procs |-> <<>>]
    /\ lateFor = {}

\* -------------------------------------------------------------- supervisor

\* The agent the supervisor runs for, and its configuration.
Self == "alice"
Variants == {"claude_swarm", "watcher", "poll"}
Providers == {"claude", "codex"}
UsesStore == variant # "poll"

\* state_dir/<agent>.json does not exist
NoFile == [absent |-> TRUE]

\* What one external invocation can come back with (AgentRunResult), and
\* what its output left in the rolling buffer: nothing appended, some text
\* retained, or everything evicted (the last line alone exceeds max_chars).
\* The compaction marker is found in a line that was appended.
LaunchFailure == [exit_code |-> 127, timed_out |-> FALSE, compaction_detected |-> FALSE,
                  buffer |-> "same"]
Outcomes ==
    {o \in [exit_code : {0, 1}, timed_out : BOOLEAN, compaction_detected : BOOLEAN,
            buffer : {"same", "nonempty", "empty"}] :
        o.compaction_detected => o.buffer # "same"} \cup {LaunchFailure}

\* What else the state file can hold: text that is not JSON (an interrupted
\* write, an empty file), bytes that are not UTF-8 text, JSON that is not an
\* object.
Truncated == [corrupt |-> "not JSON"]
Undecodable == [corrupt |-> "not UTF-8"]
NonObject == [corrupt |-> "not an object"]

\* _load_resume_ready: False for a missing file and when read_text or
\* json.loads raise OSError, JSONDecodeError or TypeError; read_text of
\* undecodable bytes raises UnicodeDecodeError and payload.get on a
\* non-object raises AttributeError, which leave __init__.
LoadRaises(file) == file \in {Undecodable, NonObject}
LoadResumeReady(file) == IF file \in {NoFile, Truncated} THEN FALSE ELSE file.resume_ready

\* A payload that never records a resumable session.
SnapshotNeverReady(status, failures, ready) ==
    [status |-> status, consecutive_failures |-> failures, resume_ready |-> FALSE]

\* A payload whose status is working whenever the loop is running.
SnapshotAlwaysWorking(status, failures, ready) ==
    [status |-> IF status = "stopped" THEN status ELSE "working",
     consecutive_failures |-> failures, resume_ready |-> ready]

\* _write_state: the payload built from the fields at the time of the call.
Snapshot(status, failures, ready) ==
    [status |-> status, consecutive_failures |-> failures, resume_ready |-> ready]

\* UPDATE agents SET status = ?, last_seen = ? WHERE name = ?
SetAgentStatus(a, status) ==
    IF agents[a] = NoEntry THEN agents
    ELSE [agents EXCEPT ![a] = [@ EXCEPT !.status = status, !.last_seen = now]]

\* SELECT name FROM agents WHERE role = 'lead' ORDER BY last_seen DESC LIMIT 1
\* The values find_lead_agent can return: None without a lead, else a lead
\* with the greatest last_seen. Among leads with equal last_seen the
\* statement names no order: which row comes first is left to the engine
\* and to the table's definition (with a rowid table and no index, the row
\* inserted first), so each of them is a possible result.
Leads == {n \in Names : agents[n] # NoEntry /\ agents[n].role = "lead"}
FindLeadAgent ==
    IF Leads = {} THEN {NULL}
    ELSE {n \in Leads : \A o \in Leads : agents[n].last_seen >= agents[o].last_seen}

\* _alert_lead: lead = find_lead_agent() or "lead"; the names it can yield.
AlertRecipient == {IF found = NULL THEN "lead" ELSE found : found \in FindLeadAgent}

\* What a call into the store can do: complete, or raise
\* sqlite3.OperationalError (file unavailable, or locked for longer than the
\* connection's 5 s timeout).
StoreAnswers == {"ok", "error"}

\* The observer thread may or may not have raised the signal for a write
\* to the store's file by the time the supervisor looks.
Notified == {change_signal, TRUE}

\* wait_for_update(timeout): the values it can return given the signal; it
\* returns FALSE when the timeout elapses with the signal unset.
WaitForUpdateNoTimeout(sig) == IF sig THEN {TRUE} ELSE {}

WaitForUpdate(sig) == IF sig THEN {TRUE} ELSE {FALSE}

\* _run_agent: claude has one command; the others go through
\* _run_with_optional_resume, which starts with resume when resume_ready.
FirstCommand == IF provider # "claude" /\ resume_ready THEN "resume" ELSE "fresh"

\* The command line carries the provider's flag that attaches the invocation
\* to the previous session: the resume commands of codex, opencode and
\* gemini; and the one command of claude, which has --continue in
\* claude_swarm always and in minion_swarm when not in poll mode.
CommandResumes == cmd = "resume" \/ (provider = "claude" /\ variant # "poll")

\* One invocation of the prompt being processed, as recorded in attempts.
Attempt(o) == [cmd |-> cmd, resumes |-> CommandResumes, exit_code |-> o.exit_code,
               timed_out |-> o.timed_out, compaction_detected |-> o.compaction_detected]

\* _run_with_optional_resume: a resume result is final when it timed out or
\* exited 0; otherwise the fresh command follows.
ResumeIsFinalOnlyOnSuccess(o) == o.exit_code = 0

ResumeIsFinal(o) == o.timed_out \/ o.exit_code = 0

\* _process_prompt / _process_message: the verdict on the final result.
Succeeded(o) == ~o.timed_out /\ o.exit_code = 0
ErrorOf(o) == IF o.timed_out THEN "no output" ELSE "exit code"

\* _build_prompt / _build_watcher_prompt / _build_inbox_prompt: the history
\* block is injected, and the flag cleared, when the flag is set and the
\* buffer holds text.
InjectAfterBuild == IF inject_history_next_turn /\ buffer_nonempty THEN FALSE
                    ELSE inject_history_next_turn

BufferAfter(o) == IF o.buffer = "same" THEN buffer_nonempty ELSE o.buffer = "nonempty"

\* The consume step of the supervisor's pop, with the mark left out.
PopConsumeNothing(r) == <<messages, broadcast_reads>>

PopConsume(r) == <<MarkMessages(r), MarkReads(Self, r)>>

\* run(), up to the registration: start the watcher, register_agent. The
\* transaction is committed when the call returns; the snapshot file is not
\* written yet. A store error here is raised outside the try block.
RunStartWatcher(ans) ==
    /\ dpc = "start" /\ UsesStore
    /\ IF ans = "ok"
       THEN /\ agents' = Upsert(Self, agent_cfg.role, "daemon agent", "online")
            /\ dpc' = "registered"
            /\ \E sig \in Notified : change_signal' = sig
            /\ UNCHANGED <<store_failed, raised>>
       ELSE /\ dpc' = "crashed"
            /\ store_failed' = TRUE
            /\ raised' = TRUE
            /\ UNCHANGED <<agents, change_signal>>
    /\ UNCHANGED <<messages, broadcast_reads, now, callerVars, ghostVars, variant, provider, lead,
                   poll_script, stop_event, signalled, consecutive_failures,
                   last_error, resume_ready, inject_history_next_turn, buffer_nonempty,
                   message, cmd, attempts, handed, state_file>>

\* run(), after the registration: install the signal handlers, write the
\* idle snapshot, enter the try block.
StartWriteState ==
    /\ dpc = "registered"
    /\ state_file' = Snapshot("idle", consecutive_failures, resume_ready)
    /\ dpc' = "loop"
    /\ UNCHANGED <<storeVars, callerVars, ghostVars, variant, provider, lead, poll_script,
                   stop_event, signalled, store_failed, raised,
                   consecutive_failures, last_error, resume_ready,
                   inject_history_next_turn, buffer_nonempty, message, cmd, attempts,
                   handed, change_signal>>

\* _run_poll_mode, its start: the signal handlers, the idle snapshot, return
\* when poll.sh is missing; else _update_hp starts 'minion update-hp' and
\* blocks until the subprocess ends (at most 10 s).
RunStartPoll ==
    /\ dpc = "start" /\ ~UsesStore
    /\ state_file' = Snapshot("idle", consecutive_failures, resume_ready)
    /\ dpc' = IF poll_script THEN "hp" ELSE "done"
    /\ attempts' = <<>>
    /\ UNCHANGED <<storeVars, callerVars, ghostVars, variant, provider, lead, poll_script,
                   stop_event, signalled, store_failed, raised,
                   consecutive_failures, last_error, resume_ready,
                   inject_history_next_turn, buffer_nonempty, message, cmd, handed,
                   change_signal>>

\* _update_hp returns (the subprocess ended, timed out or could not be
\* started; every exception is logged): working snapshot, boot prompt, the
\* boot invocation, whether or not the stop flag was set meanwhile.
UpdateHpReturn ==
    /\ dpc = "hp"
    /\ state_file' = Snapshot("working", consecutive_failures, resume_ready)
    /\ cmd' = FirstCommand
    /\ dpc' = "boot"
    /\ UNCHANGED <<storeVars, callerVars, ghostVars, variant, provider, lead, poll_script,
                   stop_event, signalled, store_failed, raised,
                   consecutive_failures, last_error, resume_ready,
                   inject_history_next_turn, buffer_nonempty, message, attempts, handed,
                   change_signal>>

\* The boot invocation of poll mode returns: resume fallback as in
\* _run_with_optional_resume, then resume_ready on exit code 0; the token
\* accounting and _update_hp, which blocks until its subprocess ends, follow
\* before the snapshot is written.
BootReturn(o) ==
    /\ dpc = "boot"
    /\ attempts' = Append(attempts, Attempt(o))
    /\ buffer_nonempty' = BufferAfter(o)
    /\ IF cmd = "resume" /\ ~ResumeIsFinal(o)
       THEN /\ resume_ready' = FALSE
            /\ cmd' = "fresh"
            /\ UNCHANGED dpc
       ELSE /\ resume_ready' = (resume_ready \/ o.exit_code = 0)
            /\ cmd' = "none"
            /\ dpc' = "booted"
    /\ UNCHANGED <<storeVars, callerVars, ghostVars, variant, provider, lead, poll_script,
                   stop_event, signalled, store_failed, raised,
                   consecutive_failures, last_error, inject_history_next_turn,
                   message, handed, state_file, change_signal>>

\* _run_poll_mode after the boot: self._write_state("idle"), then the try
\* block with the loop.
BootWriteState ==
    /\ dpc = "booted"
    /\ state_file' = Snapshot("idle", consecutive_failures, resume_ready)
    /\ dpc' = "loop"
    /\ UNCHANGED <<storeVars, callerVars, ghostVars, variant, provider, lead, poll_script,
                   stop_event, signalled, store_failed, raised,
                   consecutive_failures, last_error, resume_ready,
                   inject_history_next_turn, buffer_nonempty, message, cmd, attempts,
                   handed, change_signal>>

\* while not self._stop_event.is_set(); in the loops that use the store the
\* body starts with pop_next_message, whose first statement reads the clock
\* (now = utc_now_iso()) and nothing else that another process writes.
LoopCheck ==
    /\ dpc = "loop"
    /\ dpc' = IF stop_event THEN "finally" ELSE IF UsesStore THEN "pop" ELSE "polling"
    /\ pop_now' = [pop_now EXCEPT ![Supervisor] = IF dpc' = "pop" THEN now ELSE @]
    /\ attempts' = <<>>
    /\ UNCHANGED <<storeVars, agentOf, direct, pc, row, returned, ghostVars, variant, provider, lead, poll_script,
                   stop_event, signalled, store_failed, raised,
                   consecutive_failures, last_error, resume_ready,
                   inject_history_next_turn, buffer_nonempty, message, cmd, handed,
                   state_file, change_signal>>

\* message = watcher.pop_next_message(), the SELECT: it runs outside any
\* transaction (sqlite3 begins one at the first UPDATE or INSERT), so
\* nothing is written and no lock is held when it has its answer: no row, or
\* the row kept for the marking transaction.
Pop(ans) ==
    /\ dpc = "pop"
    /\ IF ans = "error"
       THEN /\ store_failed' = TRUE
            /\ raised' = TRUE
            /\ dpc' = "finally"
            /\ pop_now' = [pop_now EXCEPT ![Supervisor] = 0]
            /\ UNCHANGED <<agents, message, change_signal>>
       ELSE /\ LET r == SelectRow(Self)
               IN IF r = NoRow
                  THEN /\ dpc' = "touch"
                       /\ UNCHANGED message
                  ELSE /\ message' = r.id
                       /\ dpc' = "mark"
            /\ UNCHANGED <<store_failed, raised, agents, change_signal, pop_now>>
    /\ UNCHANGED <<messages, broadcast_reads, now, agentOf, direct, pc, row, returned, ghostVars, variant, provider, lead,
                   poll_script, stop_event, signalled, consecutive_failures, last_error,
                   resume_ready, inject_history_next_turn, buffer_nonempty, cmd, attempts,
                   handed, state_file>>

\* pop_next_message with no row selected, whatever was written to the store
\* since the SELECT: the UPDATE of the registry entry, the commit; None is
\* returned.
PopTouch(ans) ==
    /\ dpc = "touch"
    /\ IF ans = "error"
       THEN /\ store_failed' = TRUE
            /\ raised' = TRUE
            /\ dpc' = "finally"
            /\ UNCHANGED <<agents, change_signal>>
       ELSE /\ agents' = TouchInbox(Self, pop_now[Supervisor])
            /\ dpc' = "idle"
            /\ \E sig \in Notified : change_signal' = sig
            /\ UNCHANGED <<store_failed, raised>>
    /\ pop_now' = [pop_now EXCEPT ![Supervisor] = 0]
    /\ UNCHANGED <<messages, broadcast_reads, now, agentOf, direct, pc, row, returned, ghostVars, variant, provider, lead,
                   poll_script, stop_event, signalled, consecutive_failures, last_error,
                   resume_ready, inject_history_next_turn, buffer_nonempty, message, cmd,
                   attempts, handed, state_file>>

\* The row the SELECT returned: is_broadcast is 0 in the branch of rows
\* addressed to the agent and 1 in the branch of rows addressed to all.
SelectedRow == [id |-> message, is_broadcast |-> messages[message].to_agent = Broadcast]

\* pop_next_message, the marking transaction for the row selected,
\* whatever was written to the store since the SELECT: the marker or the
\* read_flag, the UPDATE of the registry entry, the commit; the message is
\* returned. An error (the lock not obtained in time) leaves nothing written.
PopCommit(ans) ==
    /\ dpc = "mark"
    /\ IF ans = "error"
       THEN /\ store_failed' = TRUE
            /\ raised' = TRUE
            /\ dpc' = "finally"
            /\ message' = 0
            /\ UNCHANGED <<messages, broadcast_reads, agents, change_signal>>
       ELSE /\ messages' = PopConsume(SelectedRow)[1]
            /\ broadcast_reads' = PopConsume(SelectedRow)[2]
            /\ agents' = TouchInbox(Self, pop_now[Supervisor])
            /\ dpc' = "working"
            /\ \E sig \in Notified : change_signal' = sig
            /\ UNCHANGED <<store_failed, raised, message>>
    /\ pop_now' = [pop_now EXCEPT ![Supervisor] = 0]
    /\ UNCHANGED <<now, agentOf, direct, pc, row, returned, ghostVars, variant, provider, lead, poll_script, stop_event,
                   signalled, consecutive_failures, last_error, resume_ready,
                   inject_history_next_turn, buffer_nonempty, cmd, attempts, handed,
                   state_file>>

\* message is None: set_agent_status("idle"), committed when the call
\* returns; the snapshot file still holds what was written last.
Idle(ans) ==
    /\ dpc = "idle"
    /\ IF ans = "error"
       THEN /\ store_failed' = TRUE
            /\ raised' = TRUE
            /\ dpc' = "finally"
            /\ UNCHANGED <<agents, change_signal>>
       ELSE /\ agents' = SetAgentStatus(Self, "idle")
            /\ dpc' = "idle_set"
            /\ \E sig \in Notified : change_signal' = sig
            /\ UNCHANGED <<store_failed, raised>>
    /\ UNCHANGED <<messages, broadcast_reads, now, callerVars, ghostVars, variant, provider, lead,
                   poll_script, stop_event, signalled, consecutive_failures,
                   last_error, resume_ready, inject_history_next_turn, buffer_nonempty,
                   message, cmd, attempts, handed, state_file>>

\* The idle snapshot of the empty dequeue, then the supervisor blocks in
\* wait_for_update(timeout=5.0).
IdleWriteState ==
    /\ dpc = "idle_set"
    /\ state_file' = Snapshot("idle", consecutive_failures, resume_ready)
    /\ dpc' = "wait"
    /\ UNCHANGED <<storeVars, callerVars, ghostVars, variant, provider, lead, poll_script,
                   stop_event, signalled, store_failed, raised,
                   consecutive_failures, last_error, resume_ready,
                   inject_history_next_turn, buffer_nonempty, message, cmd, attempts,
                   handed, change_signal>>

\* wait_for_update returns (signal seen, debounce slept, signal cleared; or
\* timeout); continue.
WaitReturn ==
    /\ dpc = "wait"
    /\ \E changed \in WaitForUpdate(change_signal) :
          /\ change_signal' = FALSE
          /\ dpc' = "loop"
    /\ UNCHANGED <<storeVars, callerVars, ghostVars, variant, provider, lead, poll_script,
                   stop_event, signalled, store_failed, raised,
                   consecutive_failures, last_error, resume_ready,
                   inject_history_next_turn, buffer_nonempty, message, cmd, attempts,
                   handed, state_file>>

\* A message was popped: set_agent_status("working"), committed when the
\* call returns; the snapshot file still holds what was written last.
Working(ans) ==
    /\ dpc = "working"
    /\ IF ans = "error"
       THEN /\ store_failed' = TRUE
            /\ raised' = TRUE
            /\ dpc' = "finally"
            /\ UNCHANGED <<agents, change_signal>>
       ELSE /\ agents' = SetAgentStatus(Self, "working")
            /\ dpc' = "working_set"
            /\ \E sig \in Notified : change_signal' = sig
            /\ UNCHANGED <<store_failed, raised>>
    /\ UNCHANGED <<messages, broadcast_reads, now, callerVars, ghostVars, variant, provider, lead,
                   poll_script, stop_event, signalled, consecutive_failures,
                   last_error, resume_ready, inject_history_next_turn, buffer_nonempty,
                   message, cmd, attempts, handed, state_file>>

\* The working snapshot of the message, then build the prompt and start
\* the first invocation.
WorkingWriteState ==
    /\ dpc = "working_set"
    /\ state_file' = Snapshot("working", consecutive_failures, resume_ready)
    /\ inject_history_next_turn' = InjectAfterBuild
    /\ handed' = Append(handed, message)
    /\ attempts' = <<>>
    /\ cmd' = FirstCommand
    /\ dpc' = "exec"
    /\ UNCHANGED <<storeVars, callerVars, ghostVars, variant, provider, lead, poll_script,
                   stop_event, signalled, store_failed, raised,
                   consecutive_failures, last_error, resume_ready, buffer_nonempty,
                   message, change_signal>>

\* _poll_inbox returns: "messages" (exit 0), "none" (other exit code, or an
\* exception followed by a 5 s wait), "stand_down" (exit 3, sets the stop
\* flag). Then the stop check, and for messages the working snapshot, the
\* inbox prompt and the first invocation.
PollReturn(rc) ==
    /\ dpc = "polling"
    /\ stop_event' = (stop_event \/ rc = "stand_down")
    /\ IF stop_event'
       THEN /\ dpc' = "finally"
            /\ UNCHANGED <<state_file, inject_history_next_turn, attempts, cmd>>
       ELSE IF rc = "messages"
       THEN /\ state_file' = Snapshot("working", consecutive_failures, resume_ready)
            /\ inject_history_next_turn' = InjectAfterBuild
            /\ attempts' = <<>>
            /\ cmd' = FirstCommand
            /\ dpc' = "exec"
       ELSE /\ dpc' = "loop"
            /\ UNCHANGED <<state_file, inject_history_next_turn, attempts, cmd>>
    /\ UNCHANGED <<storeVars, callerVars, ghostVars, variant, provider, lead, poll_script,
                   signalled, store_failed, raised, consecutive_failures,
                   last_error, resume_ready, buffer_nonempty, message, handed,
                   change_signal>>

\* The counters after a failed message: claude_swarm run and poll mode
\* increment, watcher mode leaves the counter alone.
FailuresAfterFailure ==
    IF variant = "watcher" THEN consecutive_failures ELSE consecutive_failures + 1
FailuresAfterSuccess == IF variant = "watcher" THEN consecutive_failures ELSE 0
LastErrorAfterSuccess == IF variant = "watcher" THEN last_error ELSE NULL

\* _run_with_optional_resume touches no counter when it falls back to the
\* fresh command.
FailuresAfterDowngradeCounted == consecutive_failures + 1

FailuresAfterDowngrade == consecutive_failures

\* agent_cfg.retry_backoff_sec, agent_cfg.retry_backoff_max_sec (defaults)
retry_backoff_sec == 30
retry_backoff_max_sec == 300

RECURSIVE Pow2(_)
Pow2(n) == IF n = 0 THEN 1 ELSE 2 * Pow2(n - 1)

\* backoff = min(retry_backoff_sec * (2 ** (failures - 1)), retry_backoff_max_sec)
\* in seconds. Python's 2 ** -1 is 0.5, so with no failure counted the
\* product is half the base (the base is even).
Backoff(failures) ==
    Min({(retry_backoff_sec * Pow2(failures)) \div 2, retry_backoff_max_sec})

\* Rows of the table by who wrote them: the other processes, the supervisor.
InboxRows == {i \in 1..Len(messages) : messages[i].from_agent # Self}
AlertRows == {i \in 1..Len(messages) : messages[i].from_agent = Self}

\* The failure branch alerts the lead: never in poll mode.
Alerts(failures) == UsesStore /\ failures >= 3

\* A resume invocation returns with a result that is not final: clear
\* resume_ready and start the fresh command.
ExecDowngrade(o) ==
    /\ dpc = "exec"
    /\ cmd = "resume" /\ ~ResumeIsFinal(o)
    /\ attempts' = Append(attempts, Attempt(o))
    /\ buffer_nonempty' = BufferAfter(o)
    /\ resume_ready' = FALSE
    /\ cmd' = "fresh"
    /\ consecutive_failures' = FailuresAfterDowngrade
    /\ UNCHANGED <<storeVars, callerVars, ghostVars, variant, provider, lead, poll_script, dpc,
                   stop_event, signalled, store_failed, raised,
                   last_error, inject_history_next_turn, message,
                   handed, state_file, change_signal>>

\* The final invocation returns a success: _process_prompt sets
\* resume_ready; the loop resets its counters (not in watcher mode). Poll
\* mode writes the idle snapshot and continues; the loops that use the store
\* call set_agent_status("online"), committed when the call returns, with
\* the snapshot file still holding the working snapshot.
ExecSuccess(o, ans) ==
    /\ dpc = "exec"
    /\ cmd = "fresh" \/ ResumeIsFinal(o)
    /\ Succeeded(o)
    /\ attempts' = Append(attempts, Attempt(o))
    /\ buffer_nonempty' = BufferAfter(o)
    /\ inject_history_next_turn' = (inject_history_next_turn \/ o.compaction_detected)
    /\ resume_ready' = TRUE
    /\ consecutive_failures' = FailuresAfterSuccess
    /\ last_error' = LastErrorAfterSuccess
    /\ cmd' = "none"
    /\ (~UsesStore => ans = "ok")
    /\ IF ans = "error"
       THEN /\ store_failed' = TRUE
            /\ raised' = TRUE
            /\ dpc' = "finally"
            /\ message' = 0
            /\ UNCHANGED <<agents, state_file, change_signal>>
       ELSE IF UsesStore
       THEN /\ agents' = SetAgentStatus(Self, "online")
            /\ dpc' = "online_set"
            /\ \E sig \in Notified : change_signal' = sig
            /\ UNCHANGED <<store_failed, raised, state_file, message>>
       ELSE /\ state_file' = Snapshot("idle", consecutive_failures', TRUE)
            /\ dpc' = "loop"
            /\ message' = 0
            /\ UNCHANGED <<store_failed, raised, agents, change_signal>>
    /\ UNCHANGED <<messages, broadcast_reads, now, callerVars, ghostVars, variant, provider, lead,
                   poll_script, stop_event, signalled, handed>>

\* The idle snapshot of a success, with the id of the message, in the
\* loops that use the store; continue.
SuccessWriteState ==
    /\ dpc = "online_set"
    /\ state_file' = Snapshot("idle", consecutive_failures, resume_ready)
    /\ message' = 0
    /\ dpc' = "loop"
    /\ UNCHANGED <<storeVars, callerVars, ghostVars, variant, provider, lead, poll_script,
                   stop_event, signalled, store_failed, raised,
                   consecutive_failures, last_error, resume_ready,
                   inject_history_next_turn, buffer_nonempty, cmd, attempts, handed,
                   change_signal>>

\* The final invocation returns a failure (timed out, or non-zero exit):
\* last_error, the counter, the error snapshot; then the backoff sleep, or
\* from the third consecutive failure on the alert to the lead, which is not
\* in the store yet when the snapshot is.
ExecFailure(o) ==
    /\ dpc = "exec"
    /\ cmd = "fresh" \/ ResumeIsFinal(o)
    /\ ~Succeeded(o)
    /\ FailuresAfterFailure <= MaxFailures
    /\ Alerts(FailuresAfterFailure) => Cardinality(AlertRows) < MaxAlerts
    /\ attempts' = Append(attempts, Attempt(o))
    /\ buffer_nonempty' = BufferAfter(o)
    /\ inject_history_next_turn' = (inject_history_next_turn \/ o.compaction_detected)
    /\ last_error' = ErrorOf(o)
    /\ consecutive_failures' = FailuresAfterFailure
    /\ state_file' = Snapshot("error", consecutive_failures', resume_ready)
    /\ cmd' = "none"
    /\ message' = 0
    /\ dpc' = IF Alerts(consecutive_failures') THEN "alert" ELSE "backoff"
    /\ UNCHANGED <<storeVars, callerVars, ghostVars, variant, provider, lead, poll_script,
                   stop_event, signalled, store_failed, raised, resume_ready, handed,
                   change_signal>>

\* _alert_lead, after the error snapshot, first statement:
\* lead = find_lead_agent() or "lead". The call is outside the try block,
\* and no lock is held when it returns.
AlertFind(ans) ==
    /\ dpc = "alert"
    /\ IF ans = "error"
       THEN /\ store_failed' = TRUE
            /\ raised' = TRUE
            /\ dpc' = "finally"
            /\ UNCHANGED lead
       ELSE /\ \E found \in AlertRecipient : lead' = found
            /\ dpc' = "alert_send"
            /\ UNCHANGED <<store_failed, raised>>
    /\ UNCHANGED <<storeVars, callerVars, ghostVars, variant, provider,
                   poll_script, stop_event, signalled, consecutive_failures, last_error,
                   resume_ready, inject_history_next_turn, buffer_nonempty, message, cmd,
                   attempts, handed, state_file, change_signal>>

\* _alert_lead, the try block: send_message to the recipient found (its
\* error is logged); then the backoff sleep.
AlertLead(ans) ==
    /\ dpc = "alert_send"
    /\ IF ans = "error"
       THEN /\ store_failed' = TRUE
            /\ UNCHANGED <<messages, lateFor, change_signal>>
       ELSE /\ SendMessage(Self, lead,
                           "alert: " \o Self \o " has consecutive failures", NULL)
            /\ \E sig \in Notified : change_signal' = sig
            /\ UNCHANGED store_failed
    /\ lead' = NULL
    /\ dpc' = "backoff"
    /\ UNCHANGED <<broadcast_reads, agents, now, callerVars, variant, provider,
                   poll_script, stop_event, signalled, raised, consecutive_failures,
                   last_error, resume_ready, inject_history_next_turn, buffer_nonempty,
                   message, cmd, attempts, handed, state_file>>

\* self._stop_event.wait(timeout=backoff) returns: the time elapsed or the
\* flag was set.
BackoffReturn ==
    /\ dpc = "backoff"
    /\ dpc' = "loop"
    /\ attempts' = <<>>
    /\ UNCHANGED <<storeVars, callerVars, ghostVars, variant, provider, lead, poll_script,
                   stop_event, signalled, store_failed, raised,
                   consecutive_failures, last_error, resume_ready,
                   inject_history_next_turn, buffer_nonempty, message, cmd, handed,
                   state_file, change_signal>>

\* The finally block. Poll mode writes the stopped snapshot and run() is
\* left; the loops that use the store call set_agent_status("offline"),
\* committed when the call returns, or raise from it.
Finally(ans) ==
    /\ dpc = "finally"
    /\ (~UsesStore => ans = "ok")
    /\ IF ans = "error"
       THEN /\ store_failed' = TRUE
            /\ raised' = TRUE
            /\ dpc' = "crashed"
            /\ UNCHANGED <<agents, state_file, change_signal>>
       ELSE IF UsesStore
       THEN /\ agents' = SetAgentStatus(Self, "offline")
            /\ dpc' = "offline_set"
            /\ \E sig \in Notified : change_signal' = sig
            /\ UNCHANGED <<store_failed, raised, state_file>>
       ELSE /\ state_file' = Snapshot("stopped", consecutive_failures, resume_ready)
            /\ dpc' = IF raised THEN "crashed" ELSE "done"
            /\ UNCHANGED <<store_failed, raised, agents, change_signal>>
    /\ UNCHANGED <<messages, broadcast_reads, now, callerVars, ghostVars, variant, provider, lead,
                   poll_script, stop_event, signalled, consecutive_failures,
                   last_error, resume_ready, inject_history_next_turn, buffer_nonempty,
                   message, cmd, attempts, handed>>

\* The finally block after the registry update: the stopped snapshot,
\* watcher.stop(); then the pending exception, if any, leaves run().
FinallyWriteState ==
    /\ dpc = "offline_set"
    /\ state_file' = Snapshot("stopped", consecutive_failures, resume_ready)
    /\ dpc' = IF raised THEN "crashed" ELSE "done"
    /\ UNCHANGED <<storeVars, callerVars, ghostVars, variant, provider, lead, poll_script,
                   stop_event, signalled, store_failed, raised,
                   consecutive_failures, last_error, resume_ready,
                   inject_history_next_turn, buffer_nonempty, message, cmd, attempts,
                   handed, change_signal>>

\* _handle_signal: SIGTERM or SIGINT once the handlers are installed, which
\* _run_poll_mode does first and _run_watcher_mode after the registration.
HandleSignal ==
    /\ dpc \notin {"done", "crashed"}
    /\ dpc = "start" => ~UsesStore
    /\ ~signalled
    /\ stop_event' = TRUE
    /\ signalled' = TRUE
    /\ UNCHANGED <<storeVars, callerVars, ghostVars, variant, provider, lead, poll_script, dpc,
                   store_failed, raised, consecutive_failures, last_error,
                   resume_ready, inject_history_next_turn, buffer_nonempty, message, cmd,
                   attempts, handed, state_file, change_signal>>

\* Environment: another process sends the agent a direct or a broadcast
\* message.
EnvSend(to_agent, limit) ==
    /\ Cardinality(InboxRows) < limit
    /\ UsesStore /\ dpc \notin {"done", "crashed"}
    /\ SendMessage("lead", to_agent, "do X", NULL)
    /\ \E sig \in Notified : change_signal' = sig
    /\ UNCHANGED <<variant, provider, lead, poll_script, dpc, stop_event, signalled,
                   store_failed, raised, consecutive_failures, last_error, resume_ready,
                   inject_history_next_turn, buffer_nonempty, message, cmd, attempts,
                   handed, state_file>>

\* -------------------------------------------------------------- specifications

\* The supervisor before run(): __init__ has loaded resume_ready from the
\* previous run's snapshot; the callers of the store specification are absent.
\* No invocation is in flight.
RunnerIdle ==
    /\ rpc = "none"
    /\ proc = "none"
    /\ returncode = 0
    /\ written = <<>>
    /\ pipe = <<>>
    /\ reader = "none"
    /\ queue = <<>>
    /\ appended = <<>>
    /\ stream_log = <<>>
    /\ timed_out = FALSE
    /\ compaction_detected = FALSE
    /\ exit_code = 0
    /\ signals = <<>>

\* The rolling buffer as __init__ makes it, left aside by the specifications
\* that follow the buffer through buffer_nonempty alone.
BufferEmpty ==
    /\ chunks = <<>>
    /\ total_chars = 0
    /\ history = <<>>
    /\ snap = <<>>

\* No call of a CommsWatcher method has returned, no file event is pending.
CallsIdle ==
    /\ ret = NoResult
    /\ events = 0

\* The configuration of an agent whose prompts are not followed.
NoConfig == [system |-> "", role |-> "coder", max_prompt_chars |-> 0]

\* No line of an invocation's output has been rendered or mirrored.
StreamIdle ==
    /\ rendered = <<>>
    /\ console = ""
    /\ displayed_chars = 0
    /\ hidden_chars = 0

DaemonIdle ==
    /\ RunnerIdle
    /\ CallsIdle
    /\ StreamIdle
    /\ snapshots = <<>>
    /\ agent_cfg = NoConfig /\ prompt = ""
    /\ waited = 0
    /\ max_chars = 0
    /\ BufferEmpty
    /\ dpc = "start"
    /\ stop_event = FALSE /\ signalled = FALSE
    /\ store_failed = FALSE /\ raised = FALSE
    /\ consecutive_failures = 0
    /\ last_error = NULL
    /\ resume_ready = LoadResumeReady(state_file)
    /\ inject_history_next_turn = FALSE
    /\ buffer_nonempty = FALSE
    /\ message = 0
    /\ lead = NULL
    /\ cmd = "none"
    /\ attempts = <<>>
    /\ handed = <<>>
    /\ change_signal = FALSE

\* The store specifications leave the supervisor where it is.
DaemonAbsent ==
    /\ variant = "watcher" /\ provider = "claude" /\ poll_script = TRUE
    /\ state_file = NoFile
    /\ DaemonIdle

\* One CommsWatcher per agent name.
Init ==
    /\ StoreInit
    /\ CallerInit
    /\ agentOf = [p \in Procs |-> IF p = "p1" THEN "alice" ELSE "bob"]
    /\ DaemonAbsent

Next ==
    \/ \E p \in Procs : RegisterAgent(p) /\ UNCHANGED <<daemonVars, runVars, extraVars>>
    \/ \E f \in Senders, t \in AgentNames \cup {Broadcast}, c \in Contents,
          cc \in AgentNames \cup {NULL, ""} :
          /\ Len(messages) + Len(SentRows(f, t, c, cc)) <= MaxMsgs
          /\ SendMessage(f, t, c, cc)
          /\ UNCHANGED <<daemonVars, runVars, extraVars>>
    \/ \E p \in Procs : PopEnter(p) /\ UNCHANGED <<daemonVars, runVars, extraVars>>
    \/ \E p \in Procs : PopSelect(p) /\ UNCHANGED <<daemonVars, runVars, extraVars>>
    \/ \E p \in Procs : PopEmpty(p) /\ UNCHANGED <<daemonVars, runVars, extraVars>>
    \/ \E p \in Procs : PopMark(p) /\ UNCHANGED <<daemonVars, runVars, extraVars>>
    \/ \E p \in Procs : PopLocked(p) /\ UNCHANGED <<daemonVars, runVars, extraVars>>

Spec == Init /\ [][Next]_vars

\* Two processes opened a CommsWatcher under the same agent name.
InitSameName ==
    /\ StoreInit
    /\ CallerInit
    /\ agentOf = [p \in Procs |-> "alice"]
    /\ DaemonAbsent

SpecSameName == InitSameName /\ [][Next]_vars

\* One supervisor for Self, any loop variant and provider, started with or
\* without a snapshot of a previous run; other processes send it messages.
DaemonInit ==
    /\ StoreInit
    /\ CallerInit
    /\ agentOf = [p \in Procs |-> IF p = "p1" THEN "alice" ELSE "bob"]
    /\ variant \in Variants
    /\ provider \in Providers
    /\ poll_script \in (IF variant = "poll" THEN BOOLEAN ELSE {TRUE})
    /\ state_file \in {NoFile, Snapshot("stopped", 0, TRUE)}
    /\ DaemonIdle

SupervisorStep ==
    \/ \E ans \in StoreAnswers : RunStartWatcher(ans) /\ UNCHANGED <<runVars, extraVars>>
    \/ StartWriteState /\ UNCHANGED <<runVars, extraVars>>
    \/ RunStartPoll /\ UNCHANGED <<runVars, extraVars>>
    \/ UpdateHpReturn /\ UNCHANGED <<runVars, extraVars>>
    \/ \E o \in Outcomes : BootReturn(o) /\ UNCHANGED <<runVars, extraVars>>
    \/ BootWriteState /\ UNCHANGED <<runVars, extraVars>>
    \/ LoopCheck /\ UNCHANGED <<runVars, extraVars>>
    \/ \E ans \in StoreAnswers : Pop(ans) /\ UNCHANGED <<runVars, extraVars>>
    \/ \E ans \in StoreAnswers : PopTouch(ans) /\ UNCHANGED <<runVars, extraVars>>
    \/ \E ans \in StoreAnswers : PopCommit(ans) /\ UNCHANGED <<runVars, extraVars>>
    \/ \E ans \in StoreAnswers : Idle(ans) /\ UNCHANGED <<runVars, extraVars>>
    \/ IdleWriteState /\ UNCHANGED <<runVars, extraVars>>
    \/ WaitReturn /\ UNCHANGED <<runVars, extraVars>>
    \/ \E ans \in StoreAnswers : Working(ans) /\ UNCHANGED <<runVars, extraVars>>
    \/ WorkingWriteState /\ UNCHANGED <<runVars, extraVars>>
    \/ \E rc \in {"messages", "none", "stand_down"} : PollReturn(rc) /\ UNCHANGED <<runVars, extraVars>>
    \/ \E o \in Outcomes : ExecDowngrade(o) /\ UNCHANGED <<runVars, extraVars>>
    \/ \E o \in Outcomes, ans \in StoreAnswers : ExecSuccess(o, ans) /\ UNCHANGED <<runVars, extraVars>>
    \/ SuccessWriteState /\ UNCHANGED <<runVars, extraVars>>
    \/ /\ \/ \E o \in Outcomes : ExecFailure(o)
          \/ \E ans \in StoreAnswers : AlertFind(ans)
          \/ \E ans \in StoreAnswers : AlertLead(ans)
       /\ UNCHANGED <<runVars, extraVars>>
    \/ BackoffReturn /\ UNCHANGED <<runVars, extraVars>>
    \/ \E ans \in StoreAnswers : Finally(ans) /\ UNCHANGED <<runVars, extraVars>>
    \/ FinallyWriteState /\ UNCHANGED <<runVars, extraVars>>

DaemonNext ==
    \/ SupervisorStep
    \/ HandleSignal /\ UNCHANGED <<runVars, extraVars>>
    \/ \E t \in {Self, Broadcast} : EnvSend(t, MaxInbox) /\ UNCHANGED <<runVars, extraVars>>

SpecDaemon == DaemonInit /\ [][DaemonNext]_vars

\* The supervisors that read the store, under the conditions of the delivery
\* guarantee: a provider with a resume command, started without a snapshot,
\* no shutdown requested, every store call answered, every invocation
\* returning (its effect on the history buffer left out).
LiveInit ==
    /\ StoreInit
    /\ CallerInit
    /\ agentOf = [p \in Procs |-> IF p = "p1" THEN "alice" ELSE "bob"]
    /\ variant \in Variants \ {"poll"}
    /\ provider = "codex"
    /\ poll_script = TRUE
    /\ state_file = NoFile
    /\ DaemonIdle

LiveOutcomes == {o \in Outcomes : ~o.compaction_detected /\ o.buffer = "same"}

LiveStep ==
    \/ RunStartWatcher("ok") /\ UNCHANGED <<runVars, extraVars>>
    \/ StartWriteState /\ UNCHANGED <<runVars, extraVars>>
    \/ LoopCheck /\ UNCHANGED <<runVars, extraVars>>
    \/ Pop("ok") /\ UNCHANGED <<runVars, extraVars>>
    \/ PopTouch("ok") /\ UNCHANGED <<runVars, extraVars>>
    \/ PopCommit("ok") /\ UNCHANGED <<runVars, extraVars>>
    \/ Idle("ok") /\ UNCHANGED <<runVars, extraVars>>
    \/ IdleWriteState /\ UNCHANGED <<runVars, extraVars>>
    \/ WaitReturn /\ UNCHANGED <<runVars, extraVars>>
    \/ Working("ok") /\ UNCHANGED <<runVars, extraVars>>
    \/ WorkingWriteState /\ UNCHANGED <<runVars, extraVars>>
    \/ \E o \in LiveOutcomes : ExecDowngrade(o) /\ UNCHANGED <<runVars, extraVars>>
    \/ \E o \in LiveOutcomes : ExecSuccess(o, "ok") /\ UNCHANGED <<runVars, extraVars>>
    \/ SuccessWriteState /\ UNCHANGED <<runVars, extraVars>>
    \/ \E o \in LiveOutcomes : ExecFailure(o) /\ UNCHANGED <<runVars, extraVars>>
    \/ AlertFind("ok") /\ UNCHANGED <<runVars, extraVars>>
    \/ AlertLead("ok") /\ UNCHANGED <<runVars, extraVars>>
    \/ BackoffReturn /\ UNCHANGED <<runVars, extraVars>>

LiveNext ==
    \/ LiveStep
    \/ \E t \in {Self, Broadcast} : EnvSend(t, MaxLiveInbox) /\ UNCHANGED <<runVars, extraVars>>

\* The supervisor's process keeps being scheduled: every wait it makes is
\* bounded and every external command returns.
SpecLive == LiveInit /\ [][LiveNext]_vars /\ WF_vars(LiveStep)

\* ------------------------------------------------------- claims, the store

Range(f) == {f[i] : i \in DOMAIN f}
IsDirect(i) == messages[i].to_agent # Broadcast
Occurrences(sq, x) == Cardinality({k \in DOMAIN sq : sq[k] = x})

\* C1: the ids pop_next_message returns to one caller over its successive
\* calls never decrease; each returned id was the lowest eligible one (no
\* eligible message with a lower id is left behind); a direct message is
\* returned at most once, is stored with read_flag = 1 once returned, and is
\* never selected by a following pop.
PopReturnsInIdOrder ==
    \A p \in Procs :
        /\ \A i, j \in DOMAIN returned[p] : i < j => returned[p][i] <= returned[p][j]
        /\ \A i \in DOMAIN returned[p] :
              /\ \A k \in 1..(returned[p][i] - 1) : ~Eligible(agentOf[p], messages[k])
              /\ IsDirect(returned[p][i]) =>
                    /\ Occurrences(returned[p], returned[p][i]) = 1
                    /\ messages[returned[p][i]].read_flag = 1
                    /\ row[p].id # returned[p][i]

\* C1 witness: one caller was handed a direct and a broadcast message by two
\* pops and its next SELECT found nothing.
WitnessPopReturnsInIdOrder ==
    \E p \in Procs :
        /\ Len(returned[p]) = 2
        /\ \E i, j \in DOMAIN returned[p] :
              IsDirect(returned[p][i]) /\ ~IsDirect(returned[p][j])
        /\ pc[p] = "empty"

\* C2: a message is never returned to two callers that poll under the same
\* agent name (select-and-mark is one indivisible step).
PopAtomicForSameName ==
    \A p, q \in Procs :
        (p # q /\ agentOf[p] = agentOf[q]) => Range(returned[p]) \cap Range(returned[q]) = {}

\* C4: every broadcast row is, for every agent, either still eligible (and no
\* later-inserted row is selected before it) or has been returned to that
\* agent exactly once - whether or not the agent had a registry entry when
\* the row was inserted or when it polled.
BroadcastReachesLateJoiner ==
    \A p \in Procs : \A i \in 1..Len(messages) :
        ~IsDirect(i) =>
            IF <<agentOf[p], i>> \in broadcast_reads
            THEN Occurrences(returned[p], i) = 1
            ELSE /\ Occurrences(returned[p], i) = 0
                 /\ SelectRow(agentOf[p]).id \in 1..i
                 /\ pc[p] = "selected" => row[p].id <= i

\* C4 witness: a broadcast inserted before the agent registered was returned
\* to it after it registered, and its inbox is now empty.
WitnessBroadcastReachesLateJoiner ==
    \E p \in Procs : \E i \in 1..Len(messages) :
        /\ <<agentOf[p], i>> \in lateFor
        /\ agents[agentOf[p]] # NoEntry
        /\ Occurrences(returned[p], i) = 1
        /\ pc[p] = "empty"

\* C5: consuming a broadcast adds exactly the caller's marker and changes no
\* message row; a broadcast row keeps read_flag = 0, and an agent without a
\* marker for it still finds it eligible whatever markers other agents have.
BroadcastConsumeStep ==
    \A p \in Procs :
        (pc[p] = "selected" /\ row[p].is_broadcast /\ returned'[p] # returned[p]) =>
            /\ messages' = messages
            /\ broadcast_reads' = broadcast_reads \cup {<<agentOf[p], row[p].id>>}

BroadcastRowsUntouched ==
    \A i \in 1..Len(messages) :
        ~IsDirect(i) =>
            /\ messages[i].read_flag = 0
            /\ \A p \in Procs :
                  <<agentOf[p], i>> \notin broadcast_reads =>
                      (i \in EligibleIds(agentOf[p]) /\ i \notin Range(returned[p]))

BroadcastNeverMutated == []BroadcastRowsUntouched /\ [][BroadcastConsumeStep]_vars

\* C5 witness: one agent has consumed a broadcast that another agent has not.
WitnessBroadcastNeverMutated ==
    \E p, q \in Procs : \E i \in 1..Len(messages) :
        /\ ~IsDirect(i)
        /\ i \in Range(returned[p])
        /\ <<agentOf[q], i>> \notin broadcast_reads
        /\ agentOf[p] # agentOf[q]

\* C6: send_message with a cc appends the primary row (is_cc 0, no
\* cc_original_to) and right after it the copy (to the cc, is_cc 1,
\* cc_original_to the primary's recipient, content annotated with it), each
\* with its own id and read_flag 0, and leaves the stored rows alone; a
\* row's read_flag changes only when a pop for its own recipient returns it.
IsCopyOf(c, m) ==
    /\ c.id = m.id + 1
    /\ c.is_cc = 1
    /\ c.cc_original_to = m.to_agent
    /\ c.from_agent = m.from_agent
    /\ c.content = m.content \o "\n\n[CC] originally to: " \o m.to_agent
    /\ c.read_flag = 0

SendStep ==
    Len(messages') > Len(messages) =>
        LET n == Len(messages)
            m == messages'[n + 1]
        IN /\ SubSeq(messages', 1, n) = messages
           /\ m.id = n + 1 /\ m.is_cc = 0 /\ m.cc_original_to = NULL /\ m.read_flag = 0
           /\ Len(messages') \in {n + 1, n + 2}
           /\ Len(messages') = n + 2 => IsCopyOf(messages'[n + 2], m)

ReadFlagStep ==
    \A i \in 1..Len(messages) :
        messages'[i] # messages[i] =>
            /\ messages'[i] = [messages[i] EXCEPT !.read_flag = 1]
            /\ \E p \in Procs :
                  /\ agentOf[p] = messages[i].to_agent
                  /\ row[p].id = i
                  /\ returned'[p] = Append(returned[p], i)
            /\ \A j \in 1..Len(messages) : j # i => messages'[j] = messages[j]

CcRowsWellFormed ==
    \A i \in 1..Len(messages) :
        /\ messages[i].is_cc = 1 => (i > 1 /\ IsCopyOf([messages[i] EXCEPT !.read_flag = 0],
                                                      [messages[i - 1] EXCEPT !.read_flag = 0]))
        /\ IsDirect(i) =>
              (messages[i].read_flag = 1 <=>
                  \E p \in Procs : agentOf[p] = messages[i].to_agent /\ i \in Range(returned[p]))

CcCopyIndependent == []CcRowsWellFormed /\ [][SendStep /\ ReadFlagStep]_vars

\* C6 witness: a primary and its cc copy addressed to two agents, the copy
\* already popped by its recipient while the primary is still unread.
WitnessCcCopyIndependent ==
    \E i \in 2..Len(messages) :
        /\ messages[i].is_cc = 1
        /\ messages[i].to_agent # messages[i - 1].to_agent
        /\ IsDirect(i) /\ IsDirect(i - 1)
        /\ messages[i].read_flag = 1
        /\ messages[i - 1].read_flag = 0

\* -------------------------------------------------- claims, the supervisor

Consumed(i) ==
    /\ i \in 1..Len(messages)
    /\ IF messages[i].to_agent = Broadcast THEN <<Self, i>> \in broadcast_reads
       ELSE messages[i].read_flag = 1

Addressed(i) ==
    /\ i \in 1..Len(messages)
    /\ messages[i].to_agent \in {Self, Broadcast}

Handed(i) == \E k \in 1..Len(handed) : handed[k] = i

Processing == dpc \in {"working", "working_set", "exec"} /\ message # 0

\* C3: the supervisor hands each message to an invocation cycle at most once;
\* the message it is processing is already consumed in the store; and a
\* message stays consumed after its cycle, failed or not.
DeliveredAtMostOnce ==
    /\ \A k, l \in 1..Len(handed) : handed[k] = handed[l] => k = l
    /\ Processing => Consumed(message)
    /\ \A k \in 1..Len(handed) : Consumed(handed[k])

\* A second message is in its invocation after the first one's cycle failed.
WitnessDeliveredAtMostOnce ==
    /\ dpc = "exec"
    /\ Len(handed) = 2
    /\ last_error # NULL
    /\ Consumed(handed[1]) /\ Consumed(handed[2])

\* C7: an error raised by a store operation inside the loop does not take
\* the supervisor out of the loop.
StoreErrorStaysInLoop == dpc = "finally" => ~raised

\* C8: the loop is left, other than by an exception, only after SIGTERM or
\* SIGINT set the stop flag.
LoopEndsOnlyOnSignal == (dpc = "finally" /\ ~raised) => signalled

Pending == \E i \in 1..Len(messages) : Addressed(i) /\ ~Handed(i)

\* C9: with no shutdown requested, the store answering and every invocation
\* returning, every message addressed to the agent is eventually handed to
\* its supervisor: whatever is pending at any time is dequeued later (a
\* handed message stays handed), whichever signals were missed and however
\* many cycles failed.
EveryMessageDequeued == []<>(~Pending)

\* A message is dequeued after three consecutive failures and the alert
\* they caused.
WitnessEveryMessageDequeued ==
    /\ consecutive_failures >= 3
    /\ AlertRows # {}
    /\ dpc = "working"
    /\ Addressed(message)

Final(a) == a.cmd = "fresh" \/ a.timed_out \/ a.exit_code = 0

Invoking == dpc \in {"exec", "boot"}

\* C10: the first command of a prompt is the resume command exactly when the
\* provider supports resume and resume_ready is set; a resume attempt that
\* exits non-zero without timing out is followed by one fresh attempt, whose
\* result is final; a resume attempt that exits 0 or times out is final; a
\* prompt takes at most two invocations.
ResumeProtocolOrder ==
    /\ Len(attempts) <= 2
    /\ (Invoking /\ attempts = <<>>) =>
          (cmd = "resume" <=> (provider # "claude" /\ resume_ready))
    /\ (Len(attempts) >= 1 /\ Final(attempts[1])) => (Len(attempts) = 1 /\ ~Invoking)
    /\ (Len(attempts) = 1 /\ ~Final(attempts[1])) => (Invoking /\ cmd = "fresh")
    /\ Len(attempts) = 2 => (~Final(attempts[1]) /\ attempts[2].cmd = "fresh" /\ ~Invoking)

\* A resume attempt exited non-zero and the fresh attempt after it returned.
WitnessResumeProtocolOrder ==
    /\ Len(attempts) = 2
    /\ attempts[1].cmd = "resume" /\ attempts[1].exit_code # 0
    /\ attempts[2].cmd = "fresh"

\* C11: a provider without resume (claude), or any provider while
\* resume_ready is false, gets one invocation per prompt, of a command that
\* does not attach to a previous session; and a downgraded resume attempt
\* leaves resume_ready false for the fresh attempt.
FreshWhenNoResume ==
    /\ provider = "claude" =>
          (Len(attempts) <= 1 /\ \A k \in 1..Len(attempts) : ~attempts[k].resumes)
    /\ (Invoking /\ attempts = <<>> /\ ~resume_ready) => (cmd = "fresh" /\ ~CommandResumes)
    /\ (Invoking /\ Len(attempts) = 1 /\ ~Final(attempts[1])) => ~resume_ready

\* C12: a failed message has been counted when the error snapshot is
\* written and the backoff begins, in every loop variant.
FailureCounted ==
    dpc = "backoff" =>
        /\ consecutive_failures >= 1
        /\ state_file = Snapshot("error", consecutive_failures, resume_ready)

\* C13: the backoff sleep is never below min(base, max) and never above max.
BackoffWithinBounds ==
    dpc = "backoff" =>
        /\ Backoff(consecutive_failures) >= Min({retry_backoff_sec, retry_backoff_max_sec})
        /\ Backoff(consecutive_failures) <= retry_backoff_max_sec

\* C14: when the backoff begins after the third or a later consecutive
\* failure, the alert to the lead has been written to the store (the store
\* answering), in every loop variant.
AlertFromThirdFailure ==
    (dpc = "backoff" /\ consecutive_failures >= 3 /\ ~store_failed) => AlertRows # {}

LastAttempt == attempts[Len(attempts)]

JustSucceeded == dpc = "loop" /\ attempts # <<>> /\ Succeeded(LastAttempt)

\* C15: after a prompt was processed successfully the counter is 0, last_error
\* is none, resume_ready is set and the snapshot says idle, in every loop
\* variant.
SuccessResets ==
    JustSucceeded =>
        /\ consecutive_failures = 0
        /\ last_error = NULL
        /\ resume_ready
        /\ state_file = Snapshot("idle", 0, TRUE)

DowngradeStep == dpc = "exec" /\ dpc' = "exec" /\ attempts = <<>> /\ Len(attempts') = 1

\* The downgrade itself counts nothing and writes nothing.
DowngradeIsSilent ==
    DowngradeStep =>
        /\ consecutive_failures' = consecutive_failures
        /\ last_error' = last_error
        /\ state_file' = state_file
        /\ messages' = messages

\* The counter moves by +1, on the step in which the final attempt of a
\* prompt comes back failed, or back to 0.
CounterStep ==
    consecutive_failures' # consecutive_failures =>
        \/ consecutive_failures' = 0
        \/ /\ consecutive_failures' = consecutive_failures + 1
           /\ dpc = "exec" /\ dpc' # "exec"
           /\ ~Succeeded(attempts'[Len(attempts')])

\* A success after a downgrade leaves no error snapshot, backoff or alert.
SuccessStepAfterDowngrade ==
    (dpc = "exec" /\ Len(attempts') = 2 /\ Succeeded(attempts'[2])) =>
        /\ dpc' # "backoff"
        /\ state_file'.status # "error"
        /\ messages' = messages
        /\ consecutive_failures' <= consecutive_failures

\* C16: a resume attempt that is downgraded is not a failure of its own: the
\* counter changes by at most +1 per prompt, only when the final attempt
\* failed, and a fresh attempt that succeeds produces no error snapshot, no
\* backoff and no alert.
DowngradeNotCounted ==
    [][DowngradeIsSilent /\ CounterStep /\ SuccessStepAfterDowngrade]_vars

\* A message's resume attempt failed and its fresh attempt succeeded: the
\* counter is 0 and the idle snapshot is written.
WitnessDowngradeNotCounted ==
    /\ variant = "claude_swarm" /\ handed # <<>>
    /\ JustSucceeded /\ Len(attempts) = 2
    /\ ~Succeeded(attempts[1])
    /\ consecutive_failures = 0
    /\ state_file.status = "idle"

\* C17: once the prompt for the next message is built, the inject flag is
\* clear: the history block went into that prompt.
HistoryInjectedInNextPrompt ==
    (dpc = "exec" /\ attempts = <<>>) => ~inject_history_next_turn

\* ------------------------------------------------------------ _run_command

MaxLines == 2

\* A line of the child's output: with or without the compaction marker that
\* _render_stream_line looks for, or one on which _render_stream_line or
\* _extract_usage raises TypeError (a JSON object whose "type" is a list or
\* an object, or whose token counts are not numbers). NoneItem is the
\* reader's end-of-stream sentinel, q.put(None).
Lines == {"plain", "compaction", "unhashable"}
NoneItem == "None"
HasCompaction(line) == line = "compaction"

\* The raw stream log: minion_swarm writes every line it takes from the
\* queue to <agent>.stream.jsonl, claude_swarm keeps no such log.
StreamLogAfter(line) ==
    IF variant = "claude_swarm" THEN stream_log ELSE Append(stream_log, line)

OthersUnchangedByRunner == UNCHANGED <<storeVars, ghostVars, callerVars, daemonVars, extraVars>>

\* Launch with the reader thread started before the outcome of Popen is known.
LaunchStartsReaderFirst(started) ==
    /\ Invoking /\ rpc = "none"
    /\ reader' = "reading"
    /\ IF started
       THEN /\ proc' = "running"
            /\ rpc' = "loop"
            /\ UNCHANGED exit_code
       ELSE /\ exit_code' = 127
            /\ rpc' = "returned"
            /\ UNCHANGED proc
    /\ UNCHANGED <<returncode, written, pipe, queue, appended, stream_log, timed_out,
                   compaction_detected, signals>>
    /\ OthersUnchangedByRunner

\* subprocess.Popen(...): it raises (FileNotFoundError or any other
\* exception) and the result is returned at once, or the child starts and
\* the reader thread, the queue and the stream log are set up.
Launch(started) ==
    /\ Invoking /\ rpc = "none"
    /\ IF started
       THEN /\ proc' = "running"
            /\ reader' = "reading"
            /\ rpc' = "loop"
            /\ UNCHANGED exit_code
       ELSE /\ exit_code' = 127
            /\ rpc' = "returned"
            /\ UNCHANGED <<proc, reader>>
    /\ UNCHANGED <<returncode, written, pipe, queue, appended, stream_log, timed_out,
                   compaction_detected, signals>>
    /\ OthersUnchangedByRunner

\* The child writes a line to its stdout/stderr.
ProcWrite(line) ==
    /\ proc = "running"
    /\ Len(written) < MaxLines
    /\ written' = Append(written, line)
    /\ pipe' = Append(pipe, line)
    /\ UNCHANGED <<rpc, proc, returncode, reader, queue, appended, stream_log, timed_out,
                   compaction_detected, exit_code, signals>>
    /\ OthersUnchangedByRunner

\* The child closes its output and keeps running.
ProcClose ==
    /\ proc = "running"
    /\ proc' = "closed"
    /\ UNCHANGED <<rpc, returncode, written, pipe, reader, queue, appended, stream_log,
                   timed_out, compaction_detected, exit_code, signals>>
    /\ OthersUnchangedByRunner

Killed == \E k \in 1..Len(signals) : signals[k] = "kill"

\* The child exits: on its own, on SIGTERM (with the status it chooses), or
\* on SIGKILL (never status 0).
ProcExit(code) ==
    /\ proc \in {"running", "closed"}
    /\ Killed => code # 0
    /\ proc' = "exited"
    /\ returncode' = code
    /\ UNCHANGED <<rpc, written, pipe, reader, queue, appended, stream_log, timed_out,
                   compaction_detected, exit_code, signals>>
    /\ OthersUnchangedByRunner

\* _reader: for line in proc.stdout: q.put(line)
ReaderRead ==
    /\ reader = "reading"
    /\ pipe # <<>>
    /\ queue' = Append(queue, Head(pipe))
    /\ pipe' = Tail(pipe)
    /\ UNCHANGED <<rpc, proc, returncode, written, reader, appended, stream_log, timed_out,
                   compaction_detected, exit_code, signals>>
    /\ OthersUnchangedByRunner

\* _reader: end of stream, q.put(None)
ReaderEOF ==
    /\ reader = "reading"
    /\ pipe = <<>>
    /\ proc \in {"closed", "exited"}
    /\ queue' = Append(queue, NoneItem)
    /\ reader' = "done"
    /\ UNCHANGED <<rpc, proc, returncode, written, pipe, appended, stream_log, timed_out,
                   compaction_detected, exit_code, signals>>
    /\ OthersUnchangedByRunner

\* The control loop: q.get returned an item. None ends the loop; a line goes
\* to the rolling buffer and the stream log and is then rendered and scanned
\* for the marker, which raises on a line that cannot be.
LoopGet ==
    /\ rpc = "loop"
    /\ queue # <<>>
    /\ queue' = Tail(queue)
    /\ IF Head(queue) = NoneItem
       THEN /\ rpc' = "closing"
            /\ UNCHANGED <<appended, stream_log, compaction_detected>>
       ELSE /\ appended' = Append(appended, Head(queue))
            /\ stream_log' = StreamLogAfter(Head(queue))
            /\ compaction_detected' = (compaction_detected \/ HasCompaction(Head(queue)))
            /\ rpc' = IF Head(queue) = "unhashable" THEN "raised" ELSE rpc
    /\ UNCHANGED <<proc, returncode, written, pipe, reader, timed_out, exit_code, signals>>
    /\ OthersUnchangedByRunner

\* The control loop: q.get(timeout=1.0) raised queue.Empty, the queue held
\* nothing for one second.
LoopEmpty ==
    /\ rpc = "loop"
    /\ queue = <<>>
    /\ rpc' = "empty"
    /\ UNCHANGED <<proc, returncode, written, pipe, reader, queue, appended, stream_log,
                   timed_out, compaction_detected, exit_code, signals>>
    /\ OthersUnchangedByRunner

\* The except clause: the loop ends when the child has exited and the queue
\* is still empty; otherwise, when no line was taken for more than
\* no_output_timeout_sec (expired), timed_out is set and proc.terminate() is
\* called, which sends SIGTERM unless the child has exited (Popen.send_signal
\* sends nothing once the return code is known); otherwise the loop continues.
LoopEmptyCheck(expired) ==
    /\ rpc = "empty"
    /\ IF proc = "exited" /\ queue = <<>>
       THEN /\ rpc' = "closing"
            /\ UNCHANGED <<timed_out, signals>>
       ELSE IF expired
       THEN /\ timed_out' = TRUE
            /\ signals' = IF proc = "exited" THEN signals ELSE Append(signals, "terminate")
            /\ rpc' = "closing"
       ELSE /\ rpc' = "loop"
            /\ UNCHANGED <<timed_out, signals>>
    /\ UNCHANGED <<proc, returncode, written, pipe, reader, queue, appended, stream_log,
                   compaction_detected, exit_code>>
    /\ OthersUnchangedByRunner

\* if timed_out and proc.poll() is None: proc.wait(timeout=5), SIGKILL when
\* the five seconds pass and the child has not exited.
GraceWait ==
    /\ rpc = "closing"
    /\ signals' = IF timed_out /\ proc # "exited" THEN Append(signals, "kill") ELSE signals
    /\ rpc' = "final_wait"
    /\ UNCHANGED <<proc, returncode, written, pipe, reader, queue, appended, stream_log,
                   timed_out, compaction_detected, exit_code>>
    /\ OthersUnchangedByRunner

\* exit_code = proc.wait(timeout=30): the child has exited, or thirty seconds
\* pass (a child that was sent SIGKILL is gone before that) and it is killed.
FinalWait ==
    /\ rpc = "final_wait"
    /\ IF proc = "exited"
       THEN /\ exit_code' = returncode
            /\ rpc' = "returned"
            /\ UNCHANGED signals
       ELSE /\ ~Killed
            /\ signals' = Append(signals, "kill")
            /\ rpc' = "kill_wait"
            /\ UNCHANGED exit_code
    /\ UNCHANGED <<proc, returncode, written, pipe, reader, queue, appended, stream_log,
                   timed_out, compaction_detected>>
    /\ OthersUnchangedByRunner

\* proc.kill(); exit_code = proc.wait(timeout=5)
KillWait ==
    /\ rpc = "kill_wait"
    /\ proc = "exited"
    /\ exit_code' = returncode
    /\ rpc' = "returned"
    /\ UNCHANGED <<proc, returncode, written, pipe, reader, queue, appended, stream_log,
                   timed_out, compaction_detected, signals>>
    /\ OthersUnchangedByRunner

\* AgentRunResult(exit_code, timed_out, compaction_detected), with what the
\* appended lines left in the rolling buffer (kept is "nonempty" or "empty").
Result(kept) ==
    [exit_code |-> exit_code, timed_out |-> timed_out,
     compaction_detected |-> compaction_detected,
     buffer |-> IF appended = <<>> THEN "same" ELSE kept]

\* The locals of _run_command are gone once it has returned.
RunnerForgets ==
    /\ rpc' = "none"
    /\ proc' = "none"
    /\ returncode' = 0
    /\ written' = <<>>
    /\ pipe' = <<>>
    /\ reader' = "none"
    /\ queue' = <<>>
    /\ appended' = <<>>
    /\ stream_log' = <<>>
    /\ timed_out' = FALSE
    /\ compaction_detected' = FALSE
    /\ exit_code' = 0
    /\ signals' = <<>>

\* _run_command returns its result to _run_with_optional_resume and the
\* supervisor handles it.
ReturnBoot(kept) == rpc = "returned" /\ BootReturn(Result(kept)) /\ RunnerForgets /\ UNCHANGED extraVars
ReturnDowngrade(kept) == rpc = "returned" /\ ExecDowngrade(Result(kept)) /\ RunnerForgets /\ UNCHANGED extraVars
ReturnSuccess(kept, ans) == rpc = "returned" /\ ExecSuccess(Result(kept), ans) /\ RunnerForgets /\ UNCHANGED extraVars
ReturnFailure(kept) == rpc = "returned" /\ ExecFailure(Result(kept)) /\ RunnerForgets /\ UNCHANGED extraVars

\* The TypeError leaves _run_command, _run_agent and the processing of the
\* prompt, none of which catches it: into the finally block of the loop, or
\* out of run() from the boot invocation of poll mode, which is made before
\* the try block. The lines appended before the raise stay in the rolling
\* buffer.
ReturnRaise(kept) ==
    /\ rpc = "raised"
    /\ raised' = TRUE
    /\ buffer_nonempty' = BufferAfter(Result(kept))
    /\ dpc' = IF dpc = "boot" THEN "crashed" ELSE "finally"
    /\ RunnerForgets
    /\ UNCHANGED <<storeVars, callerVars, ghostVars, variant, provider, lead, poll_script,
                   stop_event, signalled, store_failed, consecutive_failures,
                   last_error, resume_ready, inject_history_next_turn,
                   message, cmd, attempts, handed, state_file, change_signal>>
    /\ UNCHANGED extraVars

Kept == {"nonempty", "empty"}

\* One supervisor in any loop variant whose invocations are run by
\* _run_command; the store answers every call and no shutdown is requested.
RunInit ==
    /\ StoreInit
    /\ CallerInit
    /\ agentOf = [p \in Procs |-> IF p = "p1" THEN "alice" ELSE "bob"]
    /\ variant \in Variants
    /\ provider \in Providers
    /\ poll_script = TRUE
    /\ state_file \in {NoFile, Snapshot("stopped", 0, TRUE)}
    /\ DaemonIdle

MaxRunInbox == 1

RunNext ==
    \/ RunStartWatcher("ok") /\ UNCHANGED <<runVars, extraVars>>
    \/ StartWriteState /\ UNCHANGED <<runVars, extraVars>>
    \/ RunStartPoll /\ UNCHANGED <<runVars, extraVars>>
    \/ UpdateHpReturn /\ UNCHANGED <<runVars, extraVars>>
    \/ LoopCheck /\ UNCHANGED <<runVars, extraVars>>
    \/ Pop("ok") /\ UNCHANGED <<runVars, extraVars>>
    \/ PopTouch("ok") /\ UNCHANGED <<runVars, extraVars>>
    \/ PopCommit("ok") /\ UNCHANGED <<runVars, extraVars>>
    \/ Idle("ok") /\ UNCHANGED <<runVars, extraVars>>
    \/ IdleWriteState /\ UNCHANGED <<runVars, extraVars>>
    \/ WaitReturn /\ UNCHANGED <<runVars, extraVars>>
    \/ Working("ok") /\ UNCHANGED <<runVars, extraVars>>
    \/ WorkingWriteState /\ UNCHANGED <<runVars, extraVars>>
    \/ \E rc \in {"messages", "none"} : PollReturn(rc) /\ UNCHANGED <<runVars, extraVars>>
    \/ (AlertFind("ok") \/ AlertLead("ok") \/ BackoffReturn) /\ UNCHANGED <<runVars, extraVars>>
    \/ EnvSend(Self, MaxRunInbox) /\ UNCHANGED <<runVars, extraVars>>
    \/ \E started \in BOOLEAN : Launch(started)
    \/ \E line \in Lines : ProcWrite(line)
    \/ ProcClose
    \/ \E code \in {0, 1} : ProcExit(code)
    \/ ReaderRead
    \/ ReaderEOF
    \/ LoopGet
    \/ LoopEmpty
    \/ \E expired \in BOOLEAN : LoopEmptyCheck(expired)
    \/ GraceWait
    \/ FinalWait
    \/ KillWait
    \/ \E kept \in Kept : ReturnBoot(kept)
    \/ BootWriteState /\ UNCHANGED <<runVars, extraVars>>
    \/ \E kept \in Kept : ReturnDowngrade(kept)
    \/ \E kept \in Kept : ReturnSuccess(kept, "ok")
    \/ SuccessWriteState /\ UNCHANGED <<runVars, extraVars>>
    \/ \E kept \in Kept : ReturnFailure(kept)
    \/ \E kept \in Kept : ReturnRaise(kept)
    \/ Finally("ok") /\ UNCHANGED <<runVars, extraVars>>
    \/ FinallyWriteState /\ UNCHANGED <<runVars, extraVars>>

SpecRun == RunInit /\ [][RunNext]_vars

\* ------------------------------------------------ claims, the command runner

\* On the timeout path the first signal sent is SIGTERM and the only other
\* one is a SIGKILL after it; a child that had exited when the timeout fired
\* is sent nothing.
TerminateBeforeKill ==
    timed_out =>
        /\ signals # <<>> => signals[1] = "terminate"
        /\ Len(signals) <= 2
        /\ Len(signals) = 2 => signals[2] = "kill"
TerminateWhileRunning ==
    [][(~timed_out /\ timed_out') =>
           signals' = IF proc = "exited" THEN <<>> ELSE <<"terminate">>]_vars

\* SIGKILL is sent only to a child that has not exited, and once the timeout
\* has fired _run_command only moves forward to its return.
RunnerRank(position) ==
    CASE position \in {"loop", "empty"} -> 1
      [] position = "closing" -> 2
      [] position = "final_wait" -> 3
      [] position = "kill_wait" -> 4
      [] position = "returned" -> 5
      [] OTHER -> 6
KillOnlyWhileRunning ==
    [][(Len(signals') > Len(signals) /\ signals'[Len(signals')] = "kill") => proc # "exited"]_vars
ReturnsAfterTimeout ==
    [][(timed_out /\ rpc' # rpc) => RunnerRank(rpc') > RunnerRank(rpc)]_vars

\* The supervisor has the final result of an invocation that timed out: it is
\* in its backoff with the timeout recorded as the error.
TimeoutRecordedAsFailure ==
    (rpc = "none" /\ dpc \in {"loop", "backoff"} /\ attempts # <<>> /\ LastAttempt.timed_out) =>
        /\ dpc = "backoff"
        /\ last_error = "no output"
        /\ state_file.status = "error"

\* C18: an invocation that times out is sent SIGTERM first and SIGKILL only
\* after it, and the supervisor records its result as a timeout failure:
\* last_error names the timeout, the error snapshot is written and the
\* backoff begins.
InactivityTimeout == TerminateBeforeKill /\ TimeoutRecordedAsFailure

\* C19: when _run_command has its result for an invocation that did not time
\* out, every line the child wrote has been appended, in order, to the
\* rolling buffer and written to the raw stream log.
NoLineDropped ==
    (rpc = "returned" /\ proc = "exited" /\ ~timed_out) =>
        /\ appended = written
        /\ stream_log = written

\* _run_command has returned without a child: Popen raised.
LaunchFailed == rpc = "returned" /\ proc = "none"

\* The result of a failed launch is the fixed one, and nothing else of the
\* runner was set up or touched.
LaunchFailureShortCircuits ==
    LaunchFailed =>
        /\ \A kept \in Kept : Result(kept) = LaunchFailure
        /\ reader = "none"
        /\ queue = <<>>
        /\ appended = <<>>
        /\ stream_log = <<>>

\* The step in which the supervisor takes the result of a failed launch: a
\* resume command is followed by the fresh one without a failure being
\* recorded; a fresh command for a message is a failure (last_error names the
\* exit code, error snapshot, backoff) and the boot invocation of poll mode
\* goes on to the loop without marking the session resumable; the supervisor
\* never leaves its loop.
LaunchFailureHandled ==
    (LaunchFailed /\ rpc' = "none") =>
        /\ Len(attempts') = Len(attempts) + 1
        /\ attempts'[Len(attempts')].exit_code = 127
        /\ ~raised' /\ ~stop_event'
        /\ IF cmd = "resume"
           THEN /\ cmd' = "fresh"
                /\ dpc' = dpc
                /\ ~resume_ready'
                /\ UNCHANGED <<consecutive_failures, last_error, state_file>>
           ELSE IF dpc = "exec"
           THEN /\ dpc' = "backoff"
                /\ last_error' = "exit code"
                /\ state_file'.status = "error"
                /\ consecutive_failures' = FailuresAfterFailure
                /\ resume_ready' = resume_ready
           ELSE /\ dpc' = "booted"
                /\ resume_ready' = resume_ready
                /\ UNCHANGED <<consecutive_failures, state_file>>

\* C20: a failed launch returns at once the result (127, not timed out, no
\* compaction) with no reader thread, queue item, buffer append or log write;
\* the supervisor handles it as a non-zero exit, and a resume command that
\* fails to launch is followed by the fresh command.
LaunchFailureIsNonZeroExit ==
    /\ []LaunchFailureShortCircuits
    /\ [][LaunchFailureHandled]_vars
    /\ [][(rpc = "none" /\ rpc' = "returned") => (proc' = "none" /\ exit_code' = 127)]_vars

WitnessLaunchFailureIsNonZeroExit ==
    /\ handed # <<>> \/ variant = "poll"
    /\ dpc = "backoff"
    /\ Len(attempts) = 2
    /\ attempts[1].cmd = "resume" /\ attempts[1].exit_code = 127
    /\ attempts[2].cmd = "fresh" /\ attempts[2].exit_code = 127
    /\ last_error = "exit code"

\* ------------------------------------------------- the stop flag and time

\* watcher.wait_for_update(timeout=5.0) in the run loops
wait_timeout == 5

\* poll.sh ... --timeout 30 in _poll_inbox
poll_timeout == 30

\* Time passes while the supervisor is blocked: in wait_for_update, which
\* waits on the change signal alone, until the signal is raised or the
\* timeout has elapsed, and then sleeps debounce_seconds (half a second,
\* which waited, counted in whole seconds, rounds up to one); in
\* _poll_inbox, until poll.sh ends (the wait of 5 s on the stop flag after
\* an exception of subprocess.run is shorter than that and not told
\* apart); in the backoff sleep, which waits on the stop flag, until the
\* flag is set or the backoff has elapsed.
Blocked ==
    \/ dpc = "wait" /\ ~change_signal /\ waited < wait_timeout
    \/ dpc = "debounce" /\ waited < 1
    \/ dpc = "polling" /\ waited < poll_timeout
    \/ dpc = "backoff" /\ ~stop_event /\ waited < Backoff(consecutive_failures)

Tick ==
    /\ Blocked
    /\ waited' = waited + (IF dpc = "debounce" THEN 1 ELSE wait_timeout)
    /\ UNCHANGED <<storeVars, ghostVars, callerVars, daemonVars, runVars, bufferVars, callVars, streamVars, snapshots,
                   agent_cfg, prompt>>

\* changed = self._change_signal.wait(timeout=timeout) returns: True with
\* the signal raised, False once the timeout has elapsed.
TimedWaitReturn ==
    /\ dpc = "wait"
    /\ change_signal \/ waited >= wait_timeout
    /\ dpc' = IF change_signal THEN "debounce" ELSE "loop"
    /\ waited' = 0
    /\ UNCHANGED <<storeVars, callerVars, ghostVars, variant, provider, lead, poll_script,
                   stop_event, signalled, store_failed, raised,
                   consecutive_failures, last_error, resume_ready,
                   inject_history_next_turn, buffer_nonempty, message, cmd, attempts,
                   handed, state_file, change_signal>>
    /\ UNCHANGED <<runVars, bufferVars, callVars, streamVars, snapshots,
                   agent_cfg, prompt>>

\* time.sleep(self.debounce_seconds) is over: self._change_signal.clear(),
\* return changed; continue.
DebounceReturn ==
    /\ dpc = "debounce"
    /\ waited >= 1
    /\ change_signal' = FALSE
    /\ dpc' = "loop"
    /\ waited' = 0
    /\ UNCHANGED <<storeVars, callerVars, ghostVars, variant, provider, lead, poll_script,
                   stop_event, signalled, store_failed, raised,
                   consecutive_failures, last_error, resume_ready,
                   inject_history_next_turn, buffer_nonempty, message, cmd, attempts,
                   handed, state_file>>
    /\ UNCHANGED <<runVars, bufferVars, callVars, streamVars, snapshots,
                   agent_cfg, prompt>>

\* subprocess.run of poll.sh returns
TimedPollReturn(rc) ==
    /\ PollReturn(rc)
    /\ waited' = 0
    /\ UNCHANGED <<runVars, bufferVars, callVars, streamVars, snapshots,
                   agent_cfg, prompt>>

\* self._stop_event.wait(timeout=float(backoff)) returns
TimedBackoffReturn ==
    /\ stop_event \/ waited >= Backoff(consecutive_failures)
    /\ BackoffReturn
    /\ waited' = 0
    /\ UNCHANGED <<runVars, bufferVars, callVars, streamVars, snapshots,
                   agent_cfg, prompt>>

\* One supervisor in any loop variant with the time its waits take; the
\* store answers every call; a shutdown may be requested at any moment.
StopInit ==
    /\ StoreInit
    /\ CallerInit
    /\ agentOf = [p \in Procs |-> IF p = "p1" THEN "alice" ELSE "bob"]
    /\ variant \in Variants
    /\ provider = "codex"
    /\ poll_script = TRUE
    /\ state_file = NoFile
    /\ DaemonIdle

StopNext ==
    \/ RunStartWatcher("ok") /\ UNCHANGED <<runVars, extraVars>>
    \/ StartWriteState /\ UNCHANGED <<runVars, extraVars>>
    \/ RunStartPoll /\ UNCHANGED <<runVars, extraVars>>
    \/ UpdateHpReturn /\ UNCHANGED <<runVars, extraVars>>
    \/ \E o \in LiveOutcomes : BootReturn(o) /\ UNCHANGED <<runVars, extraVars>>
    \/ BootWriteState /\ UNCHANGED <<runVars, extraVars>>
    \/ LoopCheck /\ UNCHANGED <<runVars, extraVars>>
    \/ Pop("ok") /\ UNCHANGED <<runVars, extraVars>>
    \/ PopTouch("ok") /\ UNCHANGED <<runVars, extraVars>>
    \/ PopCommit("ok") /\ UNCHANGED <<runVars, extraVars>>
    \/ Idle("ok") /\ UNCHANGED <<runVars, extraVars>>
    \/ IdleWriteState /\ UNCHANGED <<runVars, extraVars>>
    \/ TimedWaitReturn
    \/ DebounceReturn
    \/ Working("ok") /\ UNCHANGED <<runVars, extraVars>>
    \/ WorkingWriteState /\ UNCHANGED <<runVars, extraVars>>
    \/ \E rc \in {"messages", "none", "stand_down"} : TimedPollReturn(rc)
    \/ \E o \in LiveOutcomes : ExecDowngrade(o) /\ UNCHANGED <<runVars, extraVars>>
    \/ \E o \in LiveOutcomes : ExecSuccess(o, "ok") /\ UNCHANGED <<runVars, extraVars>>
    \/ SuccessWriteState /\ UNCHANGED <<runVars, extraVars>>
    \/ /\ \/ \E o \in LiveOutcomes : ExecFailure(o)
          \/ AlertFind("ok")
          \/ AlertLead("ok")
       /\ UNCHANGED <<runVars, extraVars>>
    \/ TimedBackoffReturn
    \/ Finally("ok") /\ UNCHANGED <<runVars, extraVars>>
    \/ FinallyWriteState /\ UNCHANGED <<runVars, extraVars>>
    \/ HandleSignal /\ UNCHANGED <<runVars, extraVars>>
    \/ EnvSend(Self, MaxRunInbox) /\ UNCHANGED <<runVars, extraVars>>
    \/ Tick

SpecStop == StopInit /\ [][StopNext]_vars

\* ------------------------------------------------------- claims, shutdown

\* The stop flag is acted on at the loop boundary, and setting it leaves an
\* invocation in flight as it is.
StopSeenAtLoopBoundary ==
    [][(dpc = "loop" /\ stop_event /\ dpc' # dpc) => dpc' = "finally"]_vars
InvocationNotInterrupted ==
    [][(~stop_event /\ stop_event' /\ Invoking) => UNCHANGED <<dpc, cmd, attempts>>]_vars
\* No time passes in a wait or sleep of the supervisor while the flag is set.
NoWaitingOnceStopped == [][waited' > waited => ~stop_event]_vars

\* C21: a shutdown request sets the stop flag; the flag is observed at the
\* next loop boundary; once it is set no wait or sleep of the supervisor
\* (backoff sleep, empty-mailbox wait) lets time pass; an invocation in
\* flight is left alone.
StopInterruptsWaits ==
    /\ StopSeenAtLoopBoundary
    /\ InvocationNotInterrupted
    /\ NoWaitingOnceStopped

\* run() has returned, or an exception has left it.
RunEnded == dpc \in {"done", "crashed"}

\* C22: when run() has returned or unwound, the persisted snapshot has
\* status stopped and, for the supervisors that use the store, the registry
\* entry of the agent has status offline.
FinalActionsDone ==
    RunEnded =>
        /\ state_file # NoFile
        /\ state_file.status = "stopped"
        /\ UsesStore => (agents[Self] # NoEntry /\ agents[Self].status = "offline")

\* ------------------------------------------------------------- restarts

\* The supervisor's process is killed (SIGKILL, power loss, SIGTERM before
\* the handlers are installed): nothing more is written, so what a handler
\* committed to the store stays without the snapshot that was to follow.
Kill ==
    /\ dpc \notin {"done", "crashed"}
    /\ dpc' = "crashed"
    /\ UNCHANGED <<storeVars, callerVars, ghostVars, variant, provider, lead, poll_script,
                   stop_event, signalled, store_failed, raised, consecutive_failures,
                   last_error, resume_ready, inject_history_next_turn, buffer_nonempty,
                   message, cmd, attempts, handed, state_file, change_signal>>

\* The state file is damaged or removed by something other than the
\* supervisor, at any time, whether or not a supervisor runs.
Damage(content) ==
    /\ state_file # content
    /\ state_file' = content
    /\ UNCHANGED <<storeVars, callerVars, ghostVars, variant, provider, lead, poll_script, dpc,
                   stop_event, signalled, store_failed, raised, consecutive_failures,
                   last_error, resume_ready, inject_history_next_turn, buffer_nonempty,
                   message, cmd, attempts, handed, change_signal>>

\* The next run: AgentDaemon.__init__ for the same agent, with
\* resume_ready from _load_resume_ready, unless that raises.
Restart ==
    /\ RunEnded
    /\ ~(raised /\ dpc = "crashed" /\ LoadRaises(state_file))
    /\ IF LoadRaises(state_file)
       THEN /\ raised' = TRUE
            /\ dpc' = "crashed"
            /\ UNCHANGED <<resume_ready, consecutive_failures, last_error,
                           inject_history_next_turn, buffer_nonempty>>
       ELSE /\ raised' = FALSE
            /\ dpc' = "start"
            /\ resume_ready' = LoadResumeReady(state_file)
            /\ consecutive_failures' = 0
            /\ last_error' = NULL
            /\ inject_history_next_turn' = FALSE
            /\ buffer_nonempty' = FALSE
    /\ stop_event' = FALSE /\ signalled' = FALSE /\ store_failed' = FALSE
    /\ message' = 0 /\ cmd' = "none" /\ attempts' = <<>> /\ handed' = <<>>
    /\ change_signal' = FALSE
    /\ lead' = NULL
    /\ UNCHANGED <<storeVars, callerVars, ghostVars, variant, provider, poll_script,
                   state_file>>

\* One supervisor that is stopped or killed and started again, any number
\* of times; the store answers every call.
RestartNext ==
    \/ RunStartWatcher("ok") /\ UNCHANGED <<runVars, extraVars>>
    \/ StartWriteState /\ UNCHANGED <<runVars, extraVars>>
    \/ RunStartPoll /\ UNCHANGED <<runVars, extraVars>>
    \/ UpdateHpReturn /\ UNCHANGED <<runVars, extraVars>>
    \/ \E o \in LiveOutcomes : BootReturn(o) /\ UNCHANGED <<runVars, extraVars>>
    \/ BootWriteState /\ UNCHANGED <<runVars, extraVars>>
    \/ LoopCheck /\ UNCHANGED <<runVars, extraVars>>
    \/ Pop("ok") /\ UNCHANGED <<runVars, extraVars>>
    \/ PopTouch("ok") /\ UNCHANGED <<runVars, extraVars>>
    \/ PopCommit("ok") /\ UNCHANGED <<runVars, extraVars>>
    \/ Idle("ok") /\ UNCHANGED <<runVars, extraVars>>
    \/ IdleWriteState /\ UNCHANGED <<runVars, extraVars>>
    \/ WaitReturn /\ UNCHANGED <<runVars, extraVars>>
    \/ Working("ok") /\ UNCHANGED <<runVars, extraVars>>
    \/ WorkingWriteState /\ UNCHANGED <<runVars, extraVars>>
    \/ \E rc \in {"messages", "none"} : PollReturn(rc) /\ UNCHANGED <<runVars, extraVars>>
    \/ \E o \in LiveOutcomes : ExecDowngrade(o) /\ UNCHANGED <<runVars, extraVars>>
    \/ \E o \in LiveOutcomes : ExecSuccess(o, "ok") /\ UNCHANGED <<runVars, extraVars>>
    \/ SuccessWriteState /\ UNCHANGED <<runVars, extraVars>>
    \/ /\ \/ \E o \in LiveOutcomes : ExecFailure(o)
          \/ AlertFind("ok")
          \/ AlertLead("ok")
       /\ UNCHANGED <<runVars, extraVars>>
    \/ BackoffReturn /\ UNCHANGED <<runVars, extraVars>>
    \/ Finally("ok") /\ UNCHANGED <<runVars, extraVars>>
    \/ FinallyWriteState /\ UNCHANGED <<runVars, extraVars>>
    \/ HandleSignal /\ UNCHANGED <<runVars, extraVars>>
    \/ EnvSend(Self, MaxRunInbox) /\ UNCHANGED <<runVars, extraVars>>
    \/ Kill /\ UNCHANGED <<runVars, extraVars>>
    \/ \E content \in {NoFile, Truncated, Undecodable, NonObject} :
          Damage(content) /\ UNCHANGED <<runVars, extraVars>>
    \/ Restart /\ UNCHANGED <<runVars, extraVars>>

SpecRestart == StopInit /\ [][RestartNext]_vars

\* ------------------------------------------------------- claims, restarts

\* What the previous run left for the next: the field of the snapshot, or
\* nothing.
PersistedResumeReady ==
    IF state_file \in {NoFile, Truncated, Undecodable, NonObject} THEN FALSE
    ELSE state_file.resume_ready

\* C23: every start of the supervisor succeeds in loading resume_ready: it
\* equals the resume_ready field of the snapshot the previous run persisted
\* last, and is false when the file is missing, unreadable or not valid JSON.
ResumeReadySurvivesRestart ==
    [][(RunEnded /\ ~(raised /\ dpc = "crashed" /\ LoadRaises(state_file)) /\ dpc' # dpc) =>
          (dpc' = "start" /\ resume_ready' = PersistedResumeReady)]_vars

\* ------------------------------------------------------------ RollingBuffer

MaxTokens == 1
MaxChunk == 5
MaxAppends == 3

\* "".join of a sequence of texts; a text is the sequence of its characters.
RECURSIVE Join(_)
Join(texts) == IF texts = <<>> THEN <<>> ELSE Head(texts) \o Join(Tail(texts))

\* while self._total_chars > self.max_chars and self._chunks: popleft
RECURSIVE Evict(_, _, _)
Evict(cs, total, max) ==
    IF total > max /\ cs # <<>> THEN Evict(Tail(cs), total - Len(Head(cs)), max)
    ELSE <<cs, total>>

\* The eviction loop taking chunks from the right (pop instead of popleft).
RECURSIVE EvictNewest(_, _, _)
EvictNewest(cs, total, max) ==
    IF total > max /\ cs # <<>>
    THEN EvictNewest(SubSeq(cs, 1, Len(cs) - 1), total - Len(cs[Len(cs)]), max)
    ELSE <<cs, total>>
BufferAppendEvictNewest(cs, total, max, text) ==
    IF text = <<>> THEN <<cs, total>>
    ELSE EvictNewest(Append(cs, text), total + Len(text), max)

\* append without its early return for the empty text.
BufferAppendKeepsEmpty(cs, total, max, text) ==
    Evict(Append(cs, text), total + Len(text), max)

\* RollingBuffer.append: the chunks and the total after the call.
BufferAppend(cs, total, max, text) ==
    IF text = <<>> THEN <<cs, total>>
    ELSE Evict(Append(cs, text), total + Len(text), max)

\* RollingBuffer.snapshot and RollingBuffer.__len__
BufferSnapshot == Join(chunks)
BufferLen == total_chars

\* A text of n characters that no earlier append contained: its characters
\* are their positions in the concatenation of everything appended.
NewText(n) == [i \in 1..n |-> Len(Join(history)) + i]

AppendCall(n) ==
    /\ Len(history) < MaxAppends
    /\ chunks' = BufferAppend(chunks, total_chars, max_chars, NewText(n))[1]
    /\ total_chars' = BufferAppend(chunks, total_chars, max_chars, NewText(n))[2]
    /\ history' = Append(history, NewText(n))
    /\ UNCHANGED <<max_chars, snap>>
    /\ UNCHANGED <<storeVars, ghostVars, callerVars, daemonVars, runVars, waited, callVars, streamVars, snapshots,
                   agent_cfg, prompt>>

SnapshotCall ==
    /\ snap' = BufferSnapshot
    /\ UNCHANGED <<max_chars, chunks, total_chars, history>>
    /\ UNCHANGED <<storeVars, ghostVars, callerVars, daemonVars, runVars, waited, callVars, streamVars, snapshots,
                   agent_cfg, prompt>>

\* A buffer of any token budget and the calls made on it: RollingBuffer
\* takes max_tokens as it is given, and the configuration loader passes
\* int(max_history_tokens) on, so the budget may be zero or negative.
BufferInit ==
    /\ StoreInit
    /\ CallerInit
    /\ agentOf = [p \in Procs |-> IF p = "p1" THEN "alice" ELSE "bob"]
    /\ variant = "poll" /\ provider = "claude" /\ poll_script = TRUE
    /\ state_file = NoFile
    /\ RunnerIdle
    /\ CallsIdle
    /\ StreamIdle
    /\ snapshots = <<>>
    /\ agent_cfg = NoConfig /\ prompt = ""
    /\ waited = 0
    /\ dpc = "start"
    /\ stop_event = FALSE /\ signalled = FALSE
    /\ store_failed = FALSE /\ raised = FALSE
    /\ consecutive_failures = 0
    /\ last_error = NULL
    /\ resume_ready = FALSE
    /\ inject_history_next_turn = FALSE
    /\ buffer_nonempty = FALSE
    /\ message = 0
    /\ lead = NULL
    /\ cmd = "none"
    /\ attempts = <<>>
    /\ handed = <<>>
    /\ change_signal = FALSE
    /\ max_chars \in {max_tokens * 4 : max_tokens \in (-1)..MaxTokens}
    /\ BufferEmpty

BufferNext ==
    \/ \E n \in 0..MaxChunk : AppendCall(n)
    \/ SnapshotCall

SpecBuffer == BufferInit /\ [][BufferNext]_vars

\* ------------------------------------------------ claims, the rolling buffer

\* C24: after any appends len() is at most the budget and equals the length
\* of snapshot(), and append of the empty text changes nothing.
BufferWithinBudget ==
    /\ BufferLen <= max_chars
    /\ BufferLen = Len(BufferSnapshot)
    /\ BufferAppend(chunks, total_chars, max_chars, <<>>) = <<chunks, total_chars>>

\* The last n characters of a text, all of it when it is shorter.
Suffix(text, n) == SubSeq(text, Len(text) - Min({n, Len(text)}) + 1, Len(text))

\* C25 as stated: snapshot() is the suffix of everything appended that fits
\* within the budget.
SnapshotIsFittingSuffix == BufferSnapshot = Suffix(Join(history), max_chars)

\* The appended texts from the j-th on, and the first j whose texts
\* together fit within the budget (Len(history) + 1, the run of no text,
\* when not even the last text fits or the budget is negative).
TextsFrom(j) == SubSeq(history, j, Len(history))
FirstFitting ==
    Min({j \in 1..Len(history) : Len(Join(TextsFrom(j))) <= max_chars}
        \cup {Len(history) + 1})

\* C25 amended: snapshot() is the concatenation, in order, of the longest
\* run of whole appended texts at the end of the appends that fits within
\* the budget; calling snapshot() returns that and leaves the buffer as it
\* was.
SnapshotIsWholeTextSuffix ==
    /\ [](BufferSnapshot = Join(TextsFrom(FirstFitting)))
    /\ [][snap' # snap => (snap' = BufferSnapshot /\ UNCHANGED <<chunks, total_chars>>)]_vars

WitnessSnapshotIsWholeTextSuffix ==
    /\ Len(Join(history)) > max_chars
    /\ Len(chunks) >= 2
    /\ BufferLen < max_chars
    /\ snap = BufferSnapshot

\* The non-empty texts among the appended ones, in order, and the longest
\* run of them at the end whose lengths sum to at most the budget.
NonEmptyAppended == SelectSeq(history, LAMBDA t : t # <<>>)
ChunksFrom(j) == SubSeq(NonEmptyAppended, j, Len(NonEmptyAppended))
LongestFittingChunks ==
    ChunksFrom(Min({j \in 1..Len(NonEmptyAppended) :
                       Len(Join(ChunksFrom(j))) <= max_chars}
                   \cup {Len(NonEmptyAppended) + 1}))

\* The step appends a text longer than the budget.
AppendsOversized ==
    /\ history' # history
    /\ Len(history'[Len(history')]) > max_chars

\* C40: the chunks the buffer retains are, chunk by chunk, the longest run
\* of non-empty appended texts at the end of the appends that fits within
\* the budget, and an append of a text longer than the budget leaves the
\* buffer empty (len() = 0, snapshot() = "").
ChunksAreLongestFittingRun ==
    /\ [](chunks = LongestFittingChunks)
    /\ [][AppendsOversized =>
             (chunks' = <<>> /\ total_chars' = 0 /\ Join(chunks') = <<>>)]_vars

\* A text longer than a positive budget was appended to a buffer that held
\* chunks, after an empty text was appended too.
WitnessChunksAreLongestFittingRun ==
    /\ max_chars > 0
    /\ Len(history) = 3
    /\ history[1] # <<>> /\ Len(history[1]) <= max_chars
    /\ history[2] = <<>>
    /\ Len(history[3]) > max_chars
    /\ chunks = <<>>
    /\ BufferLen = 0

\* ------------------------------------------------ the store, call by call

\* clock readings followed in a run of SpecCalls
MaxClock == 2

\* rows the messages table may hold in a run of SpecCalls, of SpecCount
MaxPopRows == 2
MaxRows == 3

\* The arguments register_agent is called with: role and description may be
\* left out (None).
Roles == {NULL, "lead"}
Descriptions == {NULL, "daemon agent"}
Statuses == {"online", "idle"}

\* A call of a CommsWatcher method returns to caller p: the method, its
\* arguments and the value (for pop_next_message the id of the message, or
\* the id of NoRow for None); flip tells one return from the next.
Returned(p, op, args, value) ==
    [caller |-> p, op |-> op, args |-> args, value |-> value, flip |-> ~ret.flip]

\* unread_count, the first query:
\* SELECT COUNT(*) FROM messages WHERE to_agent = ? AND read_flag = 0
DirectCount(a) ==
    Cardinality({i \in 1..Len(messages) :
                    messages[i].to_agent = a /\ messages[i].read_flag = 0})

\* unread_count, the second query: the rows addressed to 'all' that have no
\* row of the agent in broadcast_reads.
BroadcastCount(a) ==
    Cardinality({i \in 1..Len(messages) :
                    /\ messages[i].to_agent = Broadcast
                    /\ <<a, messages[i].id>> \notin broadcast_reads})

\* unread_count: return int(direct) + int(broadcast)
UnreadCount(d, b) == d + b

\* message_id = int(cur.lastrowid), read after the first INSERT and before
\* the INSERT of the cc copy.
SendReturnLastRow(rows) == rows[Len(rows)].id

SendReturn(rows) == rows[1].id

\* Time passes: utc_now_iso() reads a later time from now on.
ClockTick(limit) ==
    /\ now < limit
    /\ now' = now + 1
    /\ UNCHANGED <<messages, broadcast_reads, agents, ghostVars, callerVars,
                   daemonVars, runVars, waited, bufferVars, callVars, streamVars, snapshots,
                   agent_cfg, prompt>>

\* register_agent(role, description, status): one statement, one transaction.
RegisterCall(p, role, description, status) ==
    /\ pc[p] = "idle"
    /\ agents' = Upsert(agentOf[p], role, description, status)
    /\ ret' = Returned(p, "register_agent", <<role, description, status>>, NULL)
    /\ UNCHANGED <<messages, broadcast_reads, now, ghostVars, callerVars,
                   daemonVars, runVars, waited, bufferVars, events, streamVars, snapshots,
                   agent_cfg, prompt>>

\* unread_count(), the first SELECT: the count of unread direct rows. No
\* transaction is open when it returns (sqlite3 opens one only at the first
\* INSERT/UPDATE), so what other processes commit before the second SELECT
\* is seen by the second and not by the first.
UnreadCountDirect(p) ==
    /\ pc[p] = "idle"
    /\ direct' = [direct EXCEPT ![p] = DirectCount(agentOf[p])]
    /\ pc' = [pc EXCEPT ![p] = "counting"]
    /\ UNCHANGED <<storeVars, ghostVars, agentOf, pop_now, row, returned, daemonVars, runVars,
                   extraVars>>

\* unread_count(), the second SELECT and the return: nothing written.
UnreadCountCall(p) ==
    /\ pc[p] = "counting"
    /\ ret' = Returned(p, "unread_count", <<>>,
                       UnreadCount(direct[p], BroadcastCount(agentOf[p])))
    /\ direct' = [direct EXCEPT ![p] = 0]
    /\ pc' = [pc EXCEPT ![p] = "idle"]
    /\ UNCHANGED <<storeVars, ghostVars, agentOf, pop_now, row, returned, daemonVars, runVars,
                   waited, bufferVars, events, streamVars, snapshots,
                   agent_cfg, prompt>>

\* pop_next_message(), the reading of the clock and the SELECT of a call
\* made through the method.
PopCallEnter(p) == PopEnter(p) /\ UNCHANGED <<daemonVars, runVars, extraVars>>

PopCallSelect(p) == PopSelect(p) /\ UNCHANGED <<daemonVars, runVars, extraVars>>

\* pop_next_message(), after the SELECT: with row None the UPDATE of the
\* caller's registry entry, else the marking transaction; then the return.
\* What other processes committed since the SELECT is not looked at again.
PopCallTouchWhenFound(p) ==
    LET a == agentOf[p]
        r == row[p]
    IN /\ pc[p] \in {"empty", "selected"}
       /\ IF r = NoRow
          THEN /\ UNCHANGED <<messages, broadcast_reads, returned, agents>>
               /\ ret' = Returned(p, "pop_next_message", <<>>, NoRow.id)
          ELSE /\ messages' = MarkMessages(r)
               /\ broadcast_reads' = MarkReads(a, r)
               /\ returned' = [returned EXCEPT ![p] = Append(@, r.id)]
               /\ ret' = Returned(p, "pop_next_message", <<>>, r.id)
               /\ agents' = TouchInbox(a, pop_now[p])
       /\ pc' = [pc EXCEPT ![p] = "idle"]
       /\ row' = [row EXCEPT ![p] = NoRow]
       /\ pop_now' = [pop_now EXCEPT ![p] = 0]
       /\ UNCHANGED <<now, ghostVars, agentOf, direct, daemonVars, runVars, waited,
                      bufferVars, events, streamVars, snapshots,
                      agent_cfg, prompt>>

PopCall(p) ==
    LET a == agentOf[p]
        r == row[p]
    IN /\ pc[p] \in {"empty", "selected"}
       /\ IF r = NoRow
          THEN /\ UNCHANGED <<messages, broadcast_reads, returned>>
               /\ ret' = Returned(p, "pop_next_message", <<>>, NoRow.id)
          ELSE /\ messages' = MarkMessages(r)
               /\ broadcast_reads' = MarkReads(a, r)
               /\ returned' = [returned EXCEPT ![p] = Append(@, r.id)]
               /\ ret' = Returned(p, "pop_next_message", <<>>, r.id)
       /\ agents' = TouchInbox(a, pop_now[p])
       /\ pc' = [pc EXCEPT ![p] = "idle"]
       /\ row' = [row EXCEPT ![p] = NoRow]
       /\ pop_now' = [pop_now EXCEPT ![p] = 0]
       /\ UNCHANGED <<now, ghostVars, agentOf, direct, daemonVars, runVars, waited,
                      bufferVars, events, streamVars, snapshots,
                      agent_cfg, prompt>>

\* send_message(from_agent, to_agent, content, cc): one transaction. SQLite
\* gives the write lock to one connection at a time from its first INSERT
\* to its commit, so the rows of two calls never interleave.
SendCall(p, to_agent, cc, limit) ==
    LET rows == SentRows(agentOf[p], to_agent, "do X", cc)
    IN /\ pc[p] = "idle"
       /\ Len(messages) + Len(rows) <= limit
       /\ SendMessage(agentOf[p], to_agent, "do X", cc)
       /\ ret' = Returned(p, "send_message", <<>>, SendReturn(rows))
       /\ UNCHANGED <<daemonVars, runVars, waited, bufferVars, events, streamVars, snapshots,
                   agent_cfg, prompt>>

\* Two processes, each under its own agent name, calling the store in any
\* order. The first is the one that registers, counts, pops and waits.
Reader == "p1"

CallsInit == Init

\* The other process sends, to either name or to all, with or without a cc,
\* while time passes; the reader registers as the supervisor does, and pops.
CallsNext ==
    \/ ClockTick(MaxClock)
    \/ RegisterCall(Reader, "coder", "daemon agent", "online")
    \/ PopCallEnter(Reader)
    \/ PopCallSelect(Reader)
    \/ PopCall(Reader)
    \/ \E p \in Procs \ {Reader}, to_agent \in AgentNames \cup {Broadcast},
          cc \in {NULL, agentOf[Reader]} : SendCall(p, to_agent, cc, MaxPopRows)

SpecCalls == CallsInit /\ [][CallsNext]_vars

\* The reader registers again and again, with any arguments, and pops, while
\* time passes.
RegisterNext ==
    \/ ClockTick(MaxClock)
    \/ \E role \in Roles, description \in Descriptions, status \in Statuses :
          RegisterCall(Reader, role, description, status)
    \/ PopCallEnter(Reader)
    \/ PopCallSelect(Reader)
    \/ PopCall(Reader)

SpecRegister == CallsInit /\ [][RegisterNext]_vars

\* Two processes, the second under its own agent name or, as a command
\* line call made for the agent the daemon serves, under the reader's.
CountInit ==
    /\ StoreInit
    /\ CallerInit
    /\ agentOf \in {[p \in Procs |-> IF p = Reader THEN "alice" ELSE n] : n \in AgentNames}
    /\ DaemonAbsent

\* Both send, to either name or to all, with or without a cc, and pop; the
\* reader counts. Each SELECT and each transaction of a call is a step of
\* its own, so the calls of the two interleave as the store lets them.
CountNext ==
    \/ UnreadCountDirect(Reader)
    \/ UnreadCountCall(Reader)
    \/ \E p \in Procs : PopCallEnter(p)
    \/ \E p \in Procs : PopCallSelect(p)
    \/ \E p \in Procs : PopCall(p)
    \/ \E p \in Procs, to_agent \in AgentNames \cup {Broadcast},
          cc \in {NULL, agentOf[Reader]} : SendCall(p, to_agent, cc, MaxRows)

SpecCount == CountInit /\ [][CountNext]_vars

\* rows the messages table may hold in a run of SpecSends
MaxSentRows == 3

\* Two processes that send concurrently, to either name or to all, without
\* a cc, with an empty one, or with a cc to either name.
SendsNext ==
    \E p \in Procs, to_agent \in AgentNames \cup {Broadcast},
       cc \in AgentNames \cup {NULL, ""} : SendCall(p, to_agent, cc, MaxSentRows)

SpecSends == CallsInit /\ [][SendsNext]_vars

\* ------------------------------------------------ claims, the store's calls

\* The step in which a call of the method returns.
Returns(op) == ret' # ret /\ ret'.op = op

\* C26: every call of pop_next_message, whether it finds a message or not,
\* leaves the caller's registry entry with last_seen and last_inbox_check at
\* the time of the call, which is the reading of the clock the call took
\* when it was entered, never later than the clock at the return and never
\* earlier than what the entry held, and its other fields as they were (a
\* caller without an entry still has none); its SELECT finds no row exactly
\* when no message is eligible, and a call whose SELECT found none returns
\* none and changes no row of messages and no broadcast read marker.
PopRefreshesEntry ==
    [][/\ \A p \in Procs :
             /\ (pc[p] = "idle" /\ pc'[p] = "entered") => pop_now'[p] = now
             /\ (pc[p] = "entered" /\ pc'[p] \in {"empty", "selected"}) =>
                    /\ (row'[p] = NoRow) = (EligibleIds(agentOf[p]) = {})
                    /\ pop_now'[p] = pop_now[p]
       /\ Returns("pop_next_message") =>
             LET a == agentOf[ret'.caller]
                 t == pop_now[ret'.caller]
             IN /\ agents' = [agents EXCEPT ![a] =
                                 IF @ = NoEntry THEN @
                                 ELSE [@ EXCEPT !.last_seen = t, !.last_inbox_check = t]]
                /\ t <= now
                /\ agents[a] # NoEntry =>
                      agents[a].last_seen <= t /\ agents[a].last_inbox_check <= t
                /\ ret'.value = row[ret'.caller].id
                /\ ret'.value = NoRow.id => UNCHANGED <<messages, broadcast_reads>>]_vars

\* A pop found nothing in a table that holds rows and a marker, and the
\* caller's entry carries the time the call was entered, later than its
\* registration and earlier than the clock at the return.
WitnessPopRefreshesEntry ==
    /\ ret.op = "pop_next_message" /\ ret.value = NoRow.id
    /\ messages # <<>> /\ broadcast_reads # {}
    /\ agents[agentOf[ret.caller]] # NoEntry
    /\ agents[agentOf[ret.caller]].last_inbox_check = agents[agentOf[ret.caller]].last_seen
    /\ agents[agentOf[ret.caller]].registered_at < agents[agentOf[ret.caller]].last_seen
    /\ agents[agentOf[ret.caller]].last_seen < now

\* pop_next_message called again and again on a table nobody else writes:
\* the number of messages it returns before it returns None.
EligibleIn(msgs, reads, a) ==
    {i \in 1..Len(msgs) : \/ msgs[i].to_agent = a /\ msgs[i].read_flag = 0
                          \/ msgs[i].to_agent = Broadcast /\ <<a, msgs[i].id>> \notin reads}

RECURSIVE PopsUntilNone(_, _, _)
PopsUntilNone(msgs, reads, a) ==
    IF EligibleIn(msgs, reads, a) = {} THEN 0
    ELSE LET i == Min(EligibleIn(msgs, reads, a))
         IN IF msgs[i].to_agent = a /\ msgs[i].read_flag = 0
            THEN 1 + PopsUntilNone(SetReadFlag(msgs, msgs[i].id), reads, a)
            ELSE 1 + PopsUntilNone(msgs, reads \cup {<<a, msgs[i].id>>}, a)

\* The two queries of unread_count, run on one state of the tables, add up
\* to the number of messages eligible for pop_next_message, which is the
\* number of messages successive pops return before None.
CountsEligible ==
    \A a \in AgentNames :
        /\ UnreadCount(DirectCount(a), BroadcastCount(a)) = Cardinality(EligibleIds(a))
        /\ UnreadCount(DirectCount(a), BroadcastCount(a))
              = PopsUntilNone(messages, broadcast_reads, a)

\* A step of unread_count: its first query, or its second and the return.
UnreadCountStep ==
    \/ \E p \in Procs : pc[p] = "idle" /\ pc'[p] = "counting"
    \/ Returns("unread_count")

\* C27: unread_count changes nothing stored and returns the number
\* of messages eligible for the caller's pop_next_message when it returns,
\* unread direct ones plus broadcasts without the caller's marker, which is
\* the number of messages successive pops would return before None.
UnreadCountIsEligibleCount ==
    /\ []CountsEligible
    /\ [][UnreadCountStep => UNCHANGED <<storeVars, returned>>]_vars
    /\ [][Returns("unread_count") =>
            /\ ret'.value = Cardinality(EligibleIds(agentOf[ret'.caller]))
            /\ ret'.value = PopsUntilNone(messages, broadcast_reads,
                                          agentOf[ret'.caller])]_vars

\* C28: register_agent creates the entry of a new name from its arguments;
\* for an existing name it sets status, refreshes last_seen, replaces role
\* and description only by an argument that is supplied, and leaves
\* registered_at and last_inbox_check as they were. The entry stays the one
\* entry of its name, and no other entry and no message changes.
RegisterIsUpsert ==
    [][Returns("register_agent") =>
         LET a == agentOf[ret'.caller]
             role == ret'.args[1]
             description == ret'.args[2]
             status == ret'.args[3]
             old == agents[a]
             new == agents'[a]
         IN /\ new # NoEntry
            /\ new.status = status
            /\ new.last_seen = now
            /\ IF old = NoEntry
               THEN /\ new.registered_at = now /\ new.last_inbox_check = now
                    /\ new.role = role /\ new.description = description
               ELSE /\ new.registered_at = old.registered_at
                    /\ new.last_inbox_check = old.last_inbox_check
                    /\ new.role = IF role = NULL THEN old.role ELSE role
                    /\ new.description =
                          IF description = NULL THEN old.description ELSE description
            /\ \A n \in Names \ {a} : agents'[n] = agents[n]
            /\ UNCHANGED <<messages, broadcast_reads>>]_vars

\* A second registration without role and description, at a later time and
\* after a pop, of an entry that has a role and a description: both kept,
\* status replaced.
WitnessRegisterIsUpsert ==
    /\ ret.op = "register_agent"
    /\ ret.args = <<NULL, NULL, "idle">>
    /\ agents[agentOf[ret.caller]] # NoEntry
    /\ agents[agentOf[ret.caller]].role = "lead"
    /\ agents[agentOf[ret.caller]].description = "daemon agent"
    /\ agents[agentOf[ret.caller]].status = "idle"
    /\ agents[agentOf[ret.caller]].registered_at < agents[agentOf[ret.caller]].last_seen
    /\ agents[agentOf[ret.caller]].last_inbox_check < agents[agentOf[ret.caller]].last_seen

\* C29: send_message returns the id of the primary row, the first row the
\* call inserts and never its cc copy; every row a call inserts gets an id
\* above the id of every row already stored and the rows stored before are
\* left as they were, so ids increase strictly in insertion order, whichever
\* of the concurrent senders inserts.
SendReturnsPrimaryId ==
    /\ [](\A i, j \in 1..Len(messages) : i < j => messages[i].id < messages[j].id)
    /\ [][Returns("send_message") =>
            LET old == 1..Len(messages)
                new == (Len(messages) + 1)..Len(messages')
            IN /\ new # {}
               /\ SubSeq(messages', 1, Len(messages)) = messages
               /\ \A k \in new : \A i \in old : messages'[k].id > messages[i].id
               /\ \E k \in new :
                     /\ messages'[k].id = ret'.value
                     /\ messages'[k].is_cc = 0
                     /\ messages'[k].from_agent = agentOf[ret'.caller]
                     /\ \A l \in new \ {k} : messages'[l].is_cc = 1 /\ l > k]_vars

\* A send with a cc returned the id of its primary row, below the id of its
\* cc copy and above the id of the row the other sender had inserted before.
WitnessSendReturnsPrimaryId ==
    /\ ret.op = "send_message"
    /\ Len(messages) = 3
    /\ messages[1].from_agent # agentOf[ret.caller]
    /\ messages[2].from_agent = agentOf[ret.caller]
    /\ messages[3].is_cc = 1
    /\ ret.value = messages[2].id
    /\ messages[1].id < ret.value /\ ret.value < messages[3].id

\* ------------------------------------------------ wait_for_update

\* file events of the database file followed between two clears of the signal
MaxEvents == 2

\* The process that waits, and the thread inside wait_for_update: "idle"
\* outside the call, "waiting" in self._change_signal.wait(timeout),
\* "debounce" in time.sleep(self.debounce_seconds).
Waiting == pc[Reader] = "waiting"
Debouncing == pc[Reader] = "debounce"

\* _DbFileEventHandler on the observer thread: an event on the database
\* file sets the signal, whatever the consumer is doing.
FileEvent ==
    /\ events < MaxEvents
    /\ change_signal' = TRUE
    /\ events' = events + 1
    /\ UNCHANGED <<storeVars, ghostVars, callerVars, variant, provider, lead, poll_script, dpc,
                   stop_event, signalled, store_failed, raised, consecutive_failures,
                   last_error, resume_ready, inject_history_next_turn, buffer_nonempty,
                   message, cmd, attempts, handed, state_file, runVars, waited,
                   bufferVars, ret, streamVars, snapshots,
                   agent_cfg, prompt>>

\* The variables wait_for_update never touches.
WaitFrame ==
    UNCHANGED <<storeVars, ghostVars, agentOf, direct, pop_now, row, returned, variant, provider, lead,
                poll_script, dpc, stop_event, signalled, store_failed, raised,
                consecutive_failures, last_error, resume_ready,
                inject_history_next_turn, buffer_nonempty, message, cmd, attempts,
                handed, state_file, runVars, bufferVars, streamVars, snapshots,
                   agent_cfg, prompt>>

\* wait_for_update(timeout) is called: self._change_signal.wait(timeout)
WaitCall ==
    /\ pc[Reader] = "idle"
    /\ pc' = [pc EXCEPT ![Reader] = "waiting"]
    /\ waited' = 0
    /\ UNCHANGED <<change_signal, events, ret>>
    /\ WaitFrame

\* a second passes in Event.wait: the signal is not set, the timeout not over
WaitTick ==
    /\ Waiting /\ ~change_signal /\ waited < wait_timeout
    /\ waited' = waited + 1
    /\ UNCHANGED <<pc, change_signal, events, ret>>
    /\ WaitFrame

\* Event.wait returns False: the timeout is over and the signal is not set
WaitTimeout ==
    /\ Waiting /\ ~change_signal /\ waited >= wait_timeout
    /\ pc' = [pc EXCEPT ![Reader] = "idle"]
    /\ ret' = Returned(Reader, "wait_for_update", <<events>>, FALSE)
    /\ UNCHANGED <<change_signal, events, waited>>
    /\ WaitFrame

\* Event.wait returns True, at once when the signal is set already: the
\* debounce sleep begins
WaitSignalled ==
    /\ Waiting /\ change_signal
    /\ pc' = [pc EXCEPT ![Reader] = "debounce"]
    /\ UNCHANGED <<change_signal, events, waited, ret>>
    /\ WaitFrame

\* the sleep is over: self._change_signal.clear(); return changed (noted
\* with the return: the number of file events the wake-up stands for)
DebounceEndKeepsSignal ==
    /\ Debouncing
    /\ events' = 0
    /\ pc' = [pc EXCEPT ![Reader] = "idle"]
    /\ ret' = Returned(Reader, "wait_for_update", <<events>>, TRUE)
    /\ UNCHANGED <<change_signal, waited>>
    /\ WaitFrame

DebounceEnd ==
    /\ Debouncing
    /\ change_signal' = FALSE
    /\ events' = 0
    /\ pc' = [pc EXCEPT ![Reader] = "idle"]
    /\ ret' = Returned(Reader, "wait_for_update", <<events>>, TRUE)
    /\ UNCHANGED waited
    /\ WaitFrame

\* One consumer that calls wait_for_update again and again, with pauses,
\* while the observer thread delivers file events at any moment.
WaitNext ==
    \/ FileEvent
    \/ WaitCall
    \/ WaitTick
    \/ WaitTimeout
    \/ WaitSignalled
    \/ DebounceEnd

SpecWait == CallsInit /\ [][WaitNext]_vars

\* C30: wait_for_update leaves Event.wait only when the signal is set or
\* the timeout is over; it returns true exactly when a file event has raised
\* the signal since the last clear, and then the signal is cleared at the
\* end of the debounce sleep together with every event that arrived during
\* the sleep; it returns false only after the whole timeout with the signal
\* unset before and after; and nothing but a wait that returns true clears
\* the signal, so one raised while nobody waits is there at the next wait.
WaitForUpdateContract ==
    /\ [](change_signal = (events > 0))
    /\ [][Waiting /\ ~Waiting' => change_signal \/ waited >= wait_timeout]_vars
    /\ [][Returns("wait_for_update") =>
            /\ ret'.value = (events > 0)
            /\ ret'.args = <<events>>
            /\ ret'.value => Debouncing /\ ~change_signal' /\ events' = 0
            /\ ~ret'.value => /\ waited >= wait_timeout
                              /\ ~change_signal /\ ~change_signal']_vars
    /\ [][change_signal /\ ~change_signal' =>
            Returns("wait_for_update") /\ ret'.value]_vars

\* A wait returned true without waiting, for a signal raised before it was
\* called, and cleared the signal: one wake-up for the two events.
WitnessWaitForUpdateContract ==
    /\ ret.op = "wait_for_update" /\ ret.value = TRUE
    /\ ret.args = <<MaxEvents>>
    /\ pc[Reader] = "idle" /\ waited = 0
    /\ ~change_signal /\ events = 0

\* ------------------------------------------------ the rendered stream

\* MAX_CONSOLE_STREAM_CHARS
MAX_CONSOLE_STREAM_CHARS == 12000

\* lines of output followed in an invocation of SpecStream
MaxStreamLines == 2

\* str.lower() on the ASCII letters.
LowerOf ==
    "A" :> "a" @@ "B" :> "b" @@ "C" :> "c" @@ "D" :> "d" @@ "E" :> "e" @@ "F" :> "f" @@
    "G" :> "g" @@ "H" :> "h" @@ "I" :> "i" @@ "J" :> "j" @@ "K" :> "k" @@ "L" :> "l" @@
    "M" :> "m" @@ "N" :> "n" @@ "O" :> "o" @@ "P" :> "p" @@ "Q" :> "q" @@ "R" :> "r" @@
    "S" :> "s" @@ "T" :> "t" @@ "U" :> "u" @@ "V" :> "v" @@ "W" :> "w" @@ "X" :> "x" @@
    "Y" :> "y" @@ "Z" :> "z"

RECURSIVE Lower(_)
Lower(text) ==
    IF Len(text) = 0 THEN ""
    ELSE IF Len(text) = 1 THEN (IF text \in DOMAIN LowerOf THEN LowerOf[text] ELSE text)
    ELSE LET half == Len(text) \div 2
         IN Lower(SubSeq(text, 1, half)) \o Lower(SubSeq(text, half + 1, Len(text)))

\* marker in text
Contains(text, marker) ==
    \E i \in 1..(Len(text) - Len(marker) + 1) : SubSeq(text, i, i + Len(marker) - 1) = marker

\* line.rstrip("\n")
RECURSIVE RStrip(_)
RStrip(text) ==
    IF Len(text) > 0 /\ SubSeq(text, Len(text), Len(text)) = "\n"
    THEN RStrip(SubSeq(text, 1, Len(text) - 1))
    ELSE text

\* text * n
RECURSIVE Repeat(_, _)
Repeat(text, n) ==
    IF n = 0 THEN ""
    ELSE IF n = 1 THEN text
    ELSE Repeat(text, n \div 2) \o Repeat(text, n - (n \div 2))

\* What json.loads returns: a string, None, an int, a dict (its items in
\* order, each key once), a list; NotJson stands for json.JSONDecodeError.
\* The strings followed hold no quote, no backslash and no control character.
Str(v) == [t |-> "str", v |-> v]
Null == [t |-> "null", v |-> <<>>]
Num(n) == [t |-> "num", v |-> n]
Obj(items) == [t |-> "obj", v |-> items]
Arr(items) == [t |-> "arr", v |-> items]
NotJson == [t |-> "none", v |-> <<>>]

\* An operation on values that Python refuses, in place of its result.
TypeError == [t |-> "TypeError", v |-> <<>>]

\* The text of a JSON value with the given separators: compact as the agent
\* command writes it, or as json.dumps writes it (", " and ": ").
RECURSIVE Encode(_, _, _)
RECURSIVE EncodeItems(_, _, _, _)
Encode(x, item_sep, key_sep) ==
    IF x.t = "str" THEN "\"" \o x.v \o "\""
    ELSE IF x.t = "null" THEN "null"
    ELSE IF x.t = "num" THEN ToString(x.v)
    ELSE IF x.t = "obj" THEN "{" \o EncodeItems(x.v, TRUE, item_sep, key_sep) \o "}"
    ELSE "[" \o EncodeItems(x.v, FALSE, item_sep, key_sep) \o "]"

EncodeItems(items, keyed, item_sep, key_sep) ==
    IF items = <<>> THEN ""
    ELSE LET one == IF keyed
                    THEN "\"" \o items[1][1] \o "\"" \o key_sep
                         \o Encode(items[1][2], item_sep, key_sep)
                    ELSE Encode(items[1], item_sep, key_sep)
         IN IF Len(items) = 1 THEN one
            ELSE one \o item_sep \o EncodeItems(Tail(items), keyed, item_sep, key_sep)

Dumps(x) == Encode(x, ", ", ": ")

\* repr(value): strings in single quotes, None, the digits of an int, dicts
\* and lists with their items' repr.
RECURSIVE Repr(_)
RECURSIVE ReprItems(_, _)
Repr(x) ==
    IF x.t = "str" THEN "'" \o x.v \o "'"
    ELSE IF x.t = "null" THEN "None"
    ELSE IF x.t = "num" THEN ToString(x.v)
    ELSE IF x.t = "obj" THEN "{" \o ReprItems(x.v, TRUE) \o "}"
    ELSE "[" \o ReprItems(x.v, FALSE) \o "]"

ReprItems(items, keyed) ==
    IF items = <<>> THEN ""
    ELSE LET one == IF keyed THEN "'" \o items[1][1] \o "': " \o Repr(items[1][2])
                    ELSE Repr(items[1])
         IN IF Len(items) = 1 THEN one
            ELSE one \o ", " \o ReprItems(Tail(items), keyed)

\* A line of the child's output and what json.loads makes of it.
JsonLine(payload) == [text |-> Encode(payload, ",", ":") \o "\n", payload |-> payload]
TextLine(text) == [text |-> text \o "\n", payload |-> NotJson]

\* _contains_compaction_marker
markers ==
    <<"compaction", "compacted", "context window", "summarized prior",
      "summarised prior", "auto-compact">>

ContainsCompactionMarker(text) ==
    LET low == Lower(text)
    IN \E k \in 1..Len(markers) : Contains(low, markers[k])

\* _extract_text_fragments, joined: the walk over dicts and lists that takes
\* the string values of the text keys.
text_keys == {"text", "content", "delta", "output_text"}

RECURSIVE Walk(_)
RECURSIVE WalkItems(_, _)
Walk(node) ==
    IF node.t = "obj" THEN WalkItems(node.v, TRUE)
    ELSE IF node.t = "arr" THEN WalkItems(node.v, FALSE)
    ELSE ""

WalkItems(items, keyed) ==
    IF items = <<>> THEN ""
    ELSE LET one == IF keyed
                    THEN IF items[1][1] \in text_keys /\ items[1][2].t = "str"
                         THEN items[1][2].v
                         ELSE Walk(items[1][2])
                    ELSE Walk(items[1])
         IN one \o WalkItems(Tail(items), keyed)

\* payload.get(key, default) of a dict
RECURSIVE Get(_, _, _)
Get(items, key, default) ==
    IF items = <<>> THEN default
    ELSE IF items[Len(items)][1] = key THEN items[Len(items)][2]
    ELSE Get(SubSeq(items, 1, Len(items) - 1), key, default)

\* f"{value}": the string itself, else str(value), which is repr(value)
Format(value) == IF value.t = "str" THEN value.v ELSE Repr(value)

\* What a call of _render_stream_line gives: the rendered text and the
\* compaction flag, or the exception that leaves it.
Rendered(text, compaction) == [raises |-> NULL, text |-> text, has_compaction |-> compaction]
Raises(exception) == [raises |-> exception, text |-> "", has_compaction |-> FALSE]

\* _render_stream_line. event_type in {"error", "warning"} hashes the value
\* of "type": a list or a dict there is unhashable and the test raises
\* TypeError.
RenderStreamLine(line) ==
    LET raw == RStrip(line.text)
        payload == line.payload
        fragments == Walk(payload)
        event_type == IF payload.t = "obj" THEN Get(payload.v, "type", Null) ELSE Null
        text == IF fragments # "" THEN fragments
                ELSE IF event_type.t = "str" /\ event_type.v \in {"error", "warning"}
                THEN "[" \o event_type.v \o "] "
                     \o Format(Get(payload.v, "message", Str(""))) \o "\n"
                ELSE ""
    IN IF raw = "" THEN Rendered("", FALSE)
       ELSE IF payload.t = "none" THEN Rendered(raw \o "\n", ContainsCompactionMarker(raw))
       ELSE IF fragments = "" /\ event_type.t \in {"obj", "arr"} THEN Raises("TypeError")
       ELSE Rendered(text, \/ ContainsCompactionMarker(raw)
                           \/ ContainsCompactionMarker(text)
                           \/ payload.t = "obj"
                              /\ ContainsCompactionMarker(Lower(Dumps(payload))))

\* x or 0
Truthy(x) ==
    IF x.t = "null" THEN FALSE
    ELSE IF x.t = "num" THEN x.v # 0
    ELSE IF x.t = "str" THEN x.v # ""
    ELSE x.v # <<>>
OrZero(x) == IF Truthy(x) THEN x ELSE Num(0)

\* a + b: ints add, strings and lists concatenate, anything else is refused.
Add(a, b) ==
    IF a.t = "TypeError" \/ b.t = "TypeError" THEN TypeError
    ELSE IF a.t = "num" /\ b.t = "num" THEN Num(a.v + b.v)
    ELSE IF a.t = "str" /\ b.t = "str" THEN Str(a.v \o b.v)
    ELSE IF a.t = "arr" /\ b.t = "arr" THEN Arr(a.v \o b.v)
    ELSE TypeError

\* _find_usage_dict: the first dict, in depth-first order through the
\* values that are dicts, that has the key input_tokens; Null for None.
HasKey(items, key) == \E k \in 1..Len(items) : items[k][1] = key

RECURSIVE FindUsageDict(_)
RECURSIVE FindUsageIn(_)
FindUsageDict(obj) ==
    IF obj.t # "obj" THEN Null
    ELSE IF HasKey(obj.v, "input_tokens") THEN obj
    ELSE FindUsageIn(obj.v)

FindUsageIn(items) ==
    IF items = <<>> THEN Null
    ELSE LET found == IF items[1][2].t = "obj" THEN FindUsageDict(items[1][2]) ELSE Null
         IN IF found.t = "obj" THEN found ELSE FindUsageIn(Tail(items))

\* The dicts among the values of a dict, in order.
DictValues(items) ==
    SelectSeq([k \in 1..Len(items) |-> items[k][2]], LAMBDA v : v.t = "obj")

\* What a call of _extract_usage gives: the pair inp, out, or the exception
\* that leaves it.
Usage(inp, out) == [raises |-> NULL, inp |-> inp, out |-> out]
UsageRaised == [raises |-> "TypeError", inp |-> Num(0), out |-> Num(0)]

\* _extract_usage: TypeError when a sum or the test ctx_window > 0 is
\* refused. "tokens" is in line.strip() exactly when it is in the line.
ExtractUsage(line) ==
    LET data == line.payload
        event_type == Get(data.v, "type", Null)
        model_usage == Get(data.v, "modelUsage", Null)
        usage == FindUsageDict(data)
        Sum(info, a, b, c) ==
            Add(Add(OrZero(Get(info.v, a, Num(0))), OrZero(Get(info.v, b, Num(0)))),
                OrZero(Get(info.v, c, Num(0))))
    IN IF ~Contains(line.text, "tokens") THEN Usage(Num(0), Num(0))
       ELSE IF data.t # "obj" THEN Usage(Num(0), Num(0))
       ELSE IF /\ event_type.t = "str" /\ event_type.v = "result"
               /\ model_usage.t = "obj"
               /\ DictValues(model_usage.v) # <<>>
       THEN LET model_info == DictValues(model_usage.v)[1]
                inp == Sum(model_info, "inputTokens", "cacheCreationInputTokens",
                           "cacheReadInputTokens")
                out == OrZero(Get(model_info.v, "outputTokens", Num(0)))
                ctx_window == Get(model_info.v, "contextWindow", Num(0))
            IN IF inp.t = "TypeError" \/ ctx_window.t # "num" THEN UsageRaised
               ELSE Usage(inp, out)
       ELSE IF usage.t # "obj" THEN Usage(Num(0), Num(0))
       ELSE LET inp == Sum(usage, "input_tokens", "cache_creation_input_tokens",
                           "cache_read_input_tokens")
                out == OrZero(Get(usage.v, "output_tokens", Num(0)))
            IN IF inp.t = "TypeError" THEN UsageRaised ELSE Usage(inp, out)

\* The loop body's use of the pair: if inp > 0, if out > 0. A value that is
\* no number is refused by the comparison.
UsageRaises(line) ==
    \/ ExtractUsage(line).raises # NULL
    \/ ExtractUsage(line).inp.t # "num"
    \/ ExtractUsage(line).out.t # "num"

\* The lines the child may write: structured events with and without text
\* fields, type tags and messages of every kind of value, token counts,
\* plain text, an empty line.
StreamLines ==
    <<JsonLine(Obj(<< <<"type", Str("error")>>,
                      <<"message", Str("context window exceeded, auto-compact triggered")>> >>)),
      JsonLine(Obj(<< <<"type", Str("warning")>>, <<"message", Str("disk almost full")>> >>)),
      JsonLine(Obj(<< <<"type", Str("error")>> >>)),
      JsonLine(Obj(<< <<"type", Str("warning")>>, <<"content", Str("")>>,
                      <<"message", Str("Summarized Prior turns")>> >>)),
      JsonLine(Obj(<< <<"type", Str("error")>>, <<"text", Str("Compacted the history")>>,
                      <<"message", Str("ignored")>> >>)),
      JsonLine(Obj(<< <<"type", Str("assistant")>>,
                      <<"message", Obj(<< <<"content",
                            Arr(<< Obj(<< <<"type", Str("text")>>,
                                          <<"text", Str("hello")>> >>) >>)>> >>)>> >>)),
      JsonLine(Obj(<< <<"type", Str("system")>>, <<"subtype", Str("COMPACTION")>> >>)),
      JsonLine(Obj(<< <<"delta", Str("compac")>>, <<"text", Str("tion")>> >>)),
      JsonLine(Arr(<< Str("text"), Null >>)),
      JsonLine(Obj(<< <<"type", Str("error")>>, <<"message", Null>> >>)),
      JsonLine(Obj(<< <<"type", Str("warning")>>,
                      <<"message", Obj(<< <<"code", Num(1)>>,
                                          <<"detail", Str("Compacted")>> >>)>> >>)),
      JsonLine(Obj(<< <<"type", Arr(<< Str("error") >>)>>,
                      <<"message", Str("auto-compact triggered")>> >>)),
      JsonLine(Obj(<< <<"type", Obj(<< <<"name", Str("warning")>> >>)>> >>)),
      JsonLine(Obj(<< <<"type", Num(3)>>, <<"message", Str("compaction")>> >>)),
      JsonLine(Obj(<< <<"type", Str("result")>>,
                      <<"usage", Obj(<< <<"input_tokens", Num(1)>> >>)>>,
                      <<"modelUsage", Obj(<< <<"claude", Obj(<< <<"inputTokens", Num(3)>>,
                                                               <<"outputTokens", Num(2)>>,
                                                               <<"contextWindow", Num(200000)>> >>)>> >>)>> >>)),
      JsonLine(Obj(<< <<"type", Str("error")>>, <<"message", Str("context window exceeded")>>,
                      <<"usage", Obj(<< <<"input_tokens", Str("many")>> >>)>> >>)),
      TextLine("SUMMARISED PRIOR messages"),
      TextLine("plain output"),
      TextLine("")>>

\* Lines long enough to reach the console ceiling: one that fills it to the
\* last character, one of more than half of it, and a short one.
MirrorLines ==
    <<TextLine(Repeat("x", MAX_CONSOLE_STREAM_CHARS - 1)),
      JsonLine(Obj(<< <<"text", Str(Repeat("y", 7000))>> >>)),
      TextLine("plain output")>>

\* The mirror printing the whole rendered text.
MirrorChunkWhole(text, displayed) == text

\* What of a rendered text goes to the console when displayed characters
\* went there before: rendered[:remaining], nothing once the ceiling is reached.
MirrorChunk(text, displayed) ==
    LET remaining == MAX_CONSOLE_STREAM_CHARS - displayed
    IN IF remaining > 0 THEN SubSeq(text, 1, Min({remaining, Len(text)})) ELSE ""

\* The body of _run_command's loop for one line taken from the queue: the
\* buffer, the raw stream log, the rendered text, the token counts, the
\* mirror with its ceiling, the compaction flag. An exception of
\* _render_stream_line or of the token counts leaves _run_command after the
\* line went to the buffer and the log and unwinds the loop of run().
StreamLine ==
    /\ pipe # <<>>
    /\ dpc = "exec" /\ ~raised
    /\ \E line \in {Head(pipe)}, result \in {RenderStreamLine(Head(pipe))} :
       \E chunk \in {MirrorChunk(result.text, displayed_chars)} :
          /\ pipe' = Tail(pipe)
          /\ appended' = Append(appended, line.text)
          /\ stream_log' = Append(stream_log, line.text)
          /\ IF result.raises # NULL
             THEN /\ raised' = TRUE
                  /\ dpc' = "finally"
                  /\ UNCHANGED <<rendered, console, displayed_chars, hidden_chars,
                                 compaction_detected>>
             ELSE /\ rendered' = Append(rendered, [line |-> line, text |-> result.text,
                                                   has_compaction |-> result.has_compaction])
                  /\ IF UsageRaises(line)
                     THEN /\ raised' = TRUE
                          /\ dpc' = "finally"
                          /\ UNCHANGED <<console, displayed_chars, hidden_chars,
                                         compaction_detected>>
                     ELSE /\ console' = console \o chunk
                          /\ displayed_chars' = displayed_chars + Len(chunk)
                          /\ hidden_chars' = hidden_chars + (Len(result.text) - Len(chunk))
                          /\ compaction_detected' =
                                (compaction_detected \/ result.has_compaction)
                          /\ UNCHANGED <<raised, dpc>>
    /\ UNCHANGED <<rpc, proc, returncode, written, reader, queue, timed_out, exit_code,
                   signals>>
    /\ UNCHANGED <<variant, provider, lead, poll_script, stop_event, signalled,
                   store_failed, consecutive_failures, last_error, resume_ready,
                   inject_history_next_turn, buffer_nonempty, message, cmd, attempts,
                   handed, state_file, change_signal>>
    /\ UNCHANGED <<storeVars, ghostVars, callerVars, waited, bufferVars,
                   callVars, snapshots, agent_cfg, prompt>>

\* An invocation of the minion_swarm supervisor whose child writes up to max
\* of the given lines, each taken from the queue in turn.
StreamStart(lines, max) ==
    /\ StoreInit
    /\ CallerInit
    /\ agentOf = [p \in Procs |-> IF p = "p1" THEN "alice" ELSE "bob"]
    /\ variant = "watcher" /\ provider = "claude" /\ poll_script = TRUE
    /\ state_file = NoFile
    /\ rpc = "none" /\ proc = "none" /\ returncode = 0 /\ written = <<>>
    /\ reader = "none" /\ queue = <<>> /\ appended = <<>> /\ stream_log = <<>>
    /\ timed_out = FALSE /\ compaction_detected = FALSE /\ exit_code = 0
    /\ signals = <<>>
    /\ \E n \in 0..max : pipe \in [1..n -> {lines[k] : k \in 1..Len(lines)}]
    /\ CallsIdle
    /\ StreamIdle
    /\ snapshots = <<>>
    /\ agent_cfg = NoConfig /\ prompt = ""
    /\ waited = 0
    /\ max_chars = 0
    /\ BufferEmpty
    /\ dpc = "exec"
    /\ stop_event = FALSE /\ signalled = FALSE
    /\ store_failed = FALSE /\ raised = FALSE
    /\ consecutive_failures = 0
    /\ last_error = NULL
    /\ resume_ready = FALSE
    /\ inject_history_next_turn = FALSE
    /\ buffer_nonempty = FALSE
    /\ message = 0
    /\ lead = NULL
    /\ cmd = "fresh"
    /\ attempts = <<>>
    /\ handed = <<>>
    /\ change_signal = FALSE

StreamInit == StreamStart(StreamLines, MaxStreamLines)

StreamNext == StreamLine

SpecStream == StreamInit /\ [][StreamNext]_vars

\* lines of output followed in an invocation of SpecMirror
MaxMirrorLines == 3

MirrorInit == StreamStart(MirrorLines, MaxMirrorLines)

SpecMirror == MirrorInit /\ [][StreamNext]_vars

\* ------------------------------------------------ claims, the rendered stream

\* The line of the scenario and its rendering.
ScenarioLine ==
    "{\"type\":\"error\",\"message\":\"context window exceeded, auto-compact triggered\"}\n"
ScenarioText == "[error] context window exceeded, auto-compact triggered\n"

\* Text holds one of the marker phrases in some letter case.
HoldsMarker(text) == \E m \in 1..Len(markers) : Contains(Lower(text), markers[m])

\* C31: every line taken from the queue is rendered; one that is a dict
\* tagged error or warning and yields no text is rendered as the line
\* "[type] message"; the flag of a line is set whenever its raw text or its
\* rendered text holds one of the marker phrases in any letter case, and
\* then the invocation's compaction_detected is set; the scenario line
\* renders as "[error] context window exceeded, auto-compact triggered" with
\* the flag set.
StreamLineClassified ==
    \A k \in 1..Len(appended) :
       /\ k <= Len(rendered)
       /\ LET r == rendered[k]
              event_type == Get(r.line.payload.v, "type", Null)
          IN /\ r.line.text = appended[k]
             /\ (/\ r.line.payload.t = "obj"
                 /\ Walk(r.line.payload) = ""
                 /\ event_type.t = "str" /\ event_type.v \in {"error", "warning"})
                => r.text = "[" \o event_type.v \o "] "
                            \o Format(Get(r.line.payload.v, "message", Str(""))) \o "\n"
             /\ (HoldsMarker(RStrip(r.line.text)) \/ HoldsMarker(r.text))
                => r.has_compaction /\ compaction_detected
             /\ r.line.text = ScenarioLine => r.text = ScenarioText /\ r.has_compaction

\* ------------------------------------------------ claims, the console mirror

RECURSIVE TotalLen(_)
TotalLen(texts) == IF texts = <<>> THEN 0 ELSE Len(Head(texts)) + TotalLen(Tail(texts))

RenderedTexts == [k \in 1..Len(rendered) |-> rendered[k].text]
RawLines == [k \in 1..Len(rendered) |-> rendered[k].line.text]

\* C34: at every point of an invocation the console holds at most
\* MAX_CONSOLE_STREAM_CHARS characters, which are the first characters of the
\* rendered text; displayed_chars counts them and displayed_chars +
\* hidden_chars is the length of all text rendered so far; the stream log and
\* the history buffer have received every line in full, whatever was hidden.
MirrorCapped ==
    /\ Len(console) <= MAX_CONSOLE_STREAM_CHARS
    /\ displayed_chars = Len(console)
    /\ displayed_chars + hidden_chars = TotalLen(RenderedTexts)
    /\ displayed_chars = Min({MAX_CONSOLE_STREAM_CHARS, TotalLen(RenderedTexts)})
    /\ stream_log = RawLines
    /\ appended = RawLines

\* Two long lines went through: the second was cut at the ceiling, the rest
\* of it hidden, and both are in the log and the buffer in full.
WitnessMirrorCapped ==
    /\ Len(rendered) >= 2
    /\ TotalLen(RenderedTexts) > MAX_CONSOLE_STREAM_CHARS
    /\ displayed_chars = MAX_CONSOLE_STREAM_CHARS
    /\ hidden_chars > 0
    /\ Len(rendered[2].text) > hidden_chars
    /\ TotalLen(stream_log) > MAX_CONSOLE_STREAM_CHARS

\* ------------------------------------------- claims, compaction and the prompt

\* The step in which the last invocation made for a message returns.
FinalReturn == dpc = "exec" /\ dpc' # "exec" /\ Len(attempts') = Len(attempts) + 1

\* C35: when the invocations made for a message are over, the history flag is
\* set if the output of any of them flagged compaction, the resume attempt
\* that was downgraded included.
CompactionCarried ==
    [][FinalReturn /\ (\E k \in 1..Len(attempts') : attempts'[k].compaction_detected)
          => inject_history_next_turn']_vars

\* ---------------------------------------------- claims, the idle supervisor

\* C36: while no other process has written to the store, a wait_for_update
\* of the idle loop returns only after the full timeout: the supervisor's own
\* writes (pop_next_message, set_agent_status) do not wake it.
OwnWritesDoNotWake ==
    [][dpc = "wait" /\ dpc' # "wait" /\ InboxRows = {} => waited >= wait_timeout]_vars

\* ------------------------------------------------------- the snapshots of a run

\* Snapshots followed per run, and the clock readings the messages are sent at.
MaxSnapshots == 6
MaxSnapshotClock == 1

\* The extra fields _write_state is called with in the loops that read the
\* store: current_message_id, from_agent and received_at with a working
\* snapshot, last_message_id with the idle snapshot of a success,
\* failed_message_id with an error snapshot (0 and NULL where the call does
\* not pass the field). Poll mode passes none of them.
Extras(current_message_id, from_agent, received_at, last_message_id, failed_message_id) ==
    [current_message_id |-> current_message_id, from_agent |-> from_agent,
     received_at |-> received_at,
     last_message_id |-> last_message_id, failed_message_id |-> failed_message_id]
NoExtras == Extras(0, NULL, NULL, 0, 0)

\* A step of run() that calls _write_state once, and one that does not.
WriteState(extras) ==
    /\ Len(snapshots) < MaxSnapshots
    /\ snapshots' = Append(snapshots, [payload |-> state_file', extras |-> extras])
NoWriteState == UNCHANGED snapshots

RunFrame == UNCHANGED <<runVars, waited, bufferVars, callVars, rendered, console,
                        displayed_chars, hidden_chars, agent_cfg, prompt>>

\* The supervisor in each of its loops, with every _write_state recorded.
SnapshotsInit == DaemonInit

SnapshotsNext ==
    \/ \E ans \in StoreAnswers : RunStartWatcher(ans) /\ NoWriteState /\ RunFrame
    \/ StartWriteState /\ WriteState(NoExtras) /\ RunFrame
    \/ RunStartPoll /\ WriteState(NoExtras) /\ RunFrame
    \/ UpdateHpReturn /\ WriteState(NoExtras) /\ RunFrame
    \/ \E o \in LiveOutcomes : BootReturn(o) /\ NoWriteState /\ RunFrame
    \/ BootWriteState /\ WriteState(NoExtras) /\ RunFrame
    \/ \E rc \in {"messages", "none", "stand_down"} :
          /\ PollReturn(rc)
          /\ IF dpc' = "exec" THEN WriteState(NoExtras) ELSE NoWriteState
          /\ RunFrame
    \/ LoopCheck /\ NoWriteState /\ RunFrame
    \/ \E ans \in StoreAnswers : Pop(ans) /\ NoWriteState /\ RunFrame
    \/ \E ans \in StoreAnswers : PopTouch(ans) /\ NoWriteState /\ RunFrame
    \/ \E ans \in StoreAnswers : PopCommit(ans) /\ NoWriteState /\ RunFrame
    \/ \E ans \in StoreAnswers : Idle(ans) /\ NoWriteState /\ RunFrame
    \/ IdleWriteState /\ WriteState(NoExtras) /\ RunFrame
    \/ WaitReturn /\ NoWriteState /\ RunFrame
    \/ \E ans \in StoreAnswers : Working(ans) /\ NoWriteState /\ RunFrame
    \/ /\ WorkingWriteState
       /\ WriteState(Extras(message, messages[message].from_agent,
                            IsoFormat(messages[message].timestamp), 0, 0))
       /\ RunFrame
    \/ \E o \in LiveOutcomes : ExecDowngrade(o) /\ NoWriteState /\ RunFrame
    \/ \E o \in LiveOutcomes, ans \in StoreAnswers :
          /\ ExecSuccess(o, ans)
          /\ IF UsesStore THEN NoWriteState ELSE WriteState(NoExtras)
          /\ RunFrame
    \/ SuccessWriteState /\ WriteState(Extras(0, NULL, NULL, message, 0)) /\ RunFrame
    \/ \E o \in LiveOutcomes :
          /\ ExecFailure(o)
          /\ WriteState(IF UsesStore THEN Extras(0, NULL, NULL, 0, message) ELSE NoExtras)
          /\ RunFrame
    \/ /\ \/ BackoffReturn
          \/ \E ans \in StoreAnswers : AlertFind(ans)
          \/ \E ans \in StoreAnswers : AlertLead(ans)
       /\ NoWriteState /\ RunFrame
    \/ \E ans \in StoreAnswers :
          /\ Finally(ans)
          /\ IF UsesStore THEN NoWriteState ELSE WriteState(NoExtras)
          /\ RunFrame
    \/ FinallyWriteState /\ WriteState(NoExtras) /\ RunFrame
    \/ HandleSignal /\ NoWriteState /\ RunFrame
    \/ EnvSend(Self, MaxInbox) /\ NoWriteState /\ RunFrame
    \/ ClockTick(MaxSnapshotClock)

SpecSnapshots == SnapshotsInit /\ [][SnapshotsNext]_vars

\* ------------------------------------------------ claims, the snapshots of a run

StatusAt(k) == snapshots[k].payload.status
WorkingAt == {k \in 1..Len(snapshots) : StatusAt(k) = "working"}

\* The step writes a snapshot with the given status.
Writes(status) ==
    /\ Len(snapshots') = Len(snapshots) + 1
    /\ snapshots'[Len(snapshots')].payload.status = status

\* The first snapshot of a run is idle.
FirstSnapshotIdle == Len(snapshots) > 0 => StatusAt(1) = "idle"

\* The working snapshot the step writes.
WrittenSnapshot == snapshots'[Len(snapshots')]

\* A working snapshot is written after the dequeue of the message it names,
\* with its id, sender and timestamp, and before the first invocation for it.
WorkingAfterDequeue ==
    Writes("working") =>
        /\ dpc = "working_set" /\ Consumed(message)
        /\ WrittenSnapshot.extras.current_message_id = message
        /\ WrittenSnapshot.extras.from_agent = messages[message].from_agent
        /\ WrittenSnapshot.extras.received_at = IsoFormat(messages[message].timestamp)
        /\ dpc' = "exec" /\ attempts' = <<>>

\* Poll mode dequeues nothing itself: its working snapshot names no message
\* and is written before the boot invocation and before the invocation
\* that follows a poll reporting messages.
WorkingBeforeInvocation ==
    Writes("working") =>
        /\ WrittenSnapshot.extras = NoExtras
        /\ \/ dpc = "hp" /\ dpc' = "boot"
           \/ dpc = "polling" /\ dpc' = "exec"
        /\ attempts' = <<>>

\* An error snapshot directly follows the working snapshot of the message
\* whose final invocation failed.
ErrorAfterFailedWorking ==
    Writes("error") =>
        /\ Len(snapshots) > 0 /\ StatusAt(Len(snapshots)) = "working"
        /\ snapshots[Len(snapshots)].extras.current_message_id = message
        /\ WrittenSnapshot.extras.failed_message_id = message
        /\ LET last == attempts'[Len(attempts')]
           IN last.timed_out \/ last.exit_code # 0

\* The snapshots written between two successive working snapshots.
Between(i, j) == {k \in (i + 1)..(j - 1) : StatusAt(k) \in {"idle", "error", "stopped"}}
Successive(i, j) == i < j /\ ~\E k \in WorkingAt : i < k /\ k < j

\* C32 as stated: the first snapshot of a run is idle; a working snapshot,
\* with the message id, sender and timestamp, is written only after a
\* successful dequeue and before the invocation; an error snapshot only
\* directly after the working snapshot of a failed invocation; and between a
\* working snapshot and the next working snapshot exactly one idle, error or
\* stopped snapshot is written.
SnapshotStateMachine ==
    /\ [](FirstSnapshotIdle
          /\ \A i, j \in WorkingAt : Successive(i, j) => Cardinality(Between(i, j)) = 1)
    /\ [][WorkingAfterDequeue /\ ErrorAfterFailedWorking]_vars

\* C32, amended: the first snapshot of a run is idle; in the loops that read
\* the store a working snapshot, with the message id, sender and timestamp,
\* is written only after a successful dequeue and before the invocation; in
\* poll mode it names no message and is written only before the boot
\* invocation or the invocation after a poll that reports messages; an
\* error snapshot is written only directly after the working snapshot of a
\* failed invocation; and between a working snapshot and the next working
\* snapshot at least one idle, error or stopped snapshot is written (the
\* idle snapshot of every empty dequeue is written there too).
SnapshotStateMachineLoop ==
    /\ [](FirstSnapshotIdle
          /\ \A i, j \in WorkingAt : Successive(i, j) => Cardinality(Between(i, j)) >= 1)
    /\ [][/\ IF UsesStore THEN WorkingAfterDequeue ELSE WorkingBeforeInvocation
          /\ ErrorAfterFailedWorking]_vars

\* Two messages sent at different times were processed, the first failed:
\* working, error, then the idle snapshot of an empty dequeue, working
\* again, idle.
WitnessSnapshotStateMachineLoop ==
    /\ Len(snapshots) = 6
    /\ [k \in 1..6 |-> StatusAt(k)] = <<"idle", "working", "error", "idle", "working", "idle">>
    /\ snapshots[2].extras.current_message_id = 1
    /\ snapshots[2].extras.received_at = IsoFormat(0)
    /\ snapshots[3].extras.failed_message_id = 1
    /\ snapshots[5].extras.current_message_id = 2
    /\ snapshots[5].extras.received_at = IsoFormat(1)
    /\ snapshots[6].extras.last_message_id = 2

\* -------------------------------------------------------------- the prompts

\* Messages and invocations followed per run of the prompt specification.
MaxPromptInbox == 2

\* sep.join(texts)
RECURSIVE JoinWith(_, _)
JoinWith(sep, texts) ==
    IF texts = <<>> THEN ""
    ELSE IF Len(texts) = 1 THEN texts[1]
    ELSE texts[1] \o sep \o JoinWith(sep, Tail(texts))

\* The characters str.strip() takes for whitespace, as far as a string
\* here can hold them: blank, tab, line feed, carriage return, form feed.
Whitespace == {" ", "\t", "\n", "\r", "\f"}

\* text.strip(): whitespace taken from both ends.
RECURSIVE Strip(_)
Strip(text) ==
    IF Len(text) > 0 /\ SubSeq(text, 1, 1) \in Whitespace
    THEN Strip(SubSeq(text, 2, Len(text)))
    ELSE IF Len(text) > 0 /\ SubSeq(text, Len(text), Len(text)) \in Whitespace
    THEN Strip(SubSeq(text, 1, Len(text) - 1))
    ELSE text

\* str(bool)
BoolText(b) == IF b THEN "True" ELSE "False"

\* The fixed texts below are the source's, with "-" written for its em dash,
\* "=" for its box-drawing double line and "'" for its backquote (one
\* character for one).

\* minion_swarm _build_protocol_section
ProtocolSection(name) ==
    JoinWith("\n", <<
        "Communication protocol - use the 'minion' CLI via Bash tool:",
        "- Check inbox: minion check-inbox --agent " \o name,
        "- Send message: minion send --from " \o name \o " --to <recipient> --message '...'",
        "- Set status: minion set-status --agent " \o name \o " --status '...'",
        "- Set context: minion set-context --agent " \o name \o " --context '...'",
        "- View agents: minion who",
        "- All minion commands output JSON. Use Bash tool to run them." >>)

\* minion_swarm _build_rules_section
RulesSection(name, role) ==
    JoinWith("\n", <<
        "Autonomous daemon rules:",
        "- Do not use AskUserQuestion - it blocks in headless mode.",
        "- Route questions to lead via Bash: minion send --from " \o name
            \o " --to lead --message '...'",
        "- Execute exactly the incoming task.",
        "- Send one summary message when done.",
        "- Task governance: lead manages task queue and assignment ownership." >>
      \o (IF role = "lead"
          THEN << "- As lead: create and maintain tasks.",
                  "- As lead: define scope and acceptance criteria.",
                  "- As lead: ask domain owners to update technical details based on direct work.",
                  "- As lead: after a task completes, review and assign the next task." >>
          ELSE << "- Non-lead agents: execute assigned tasks, report results.",
                  "- If you discover new ideas, send them to lead." >>))

\* claude_swarm _build_prompt, the rules section
ClaudeSwarmRules ==
    JoinWith("\n", <<
        "Autonomous daemon rules:",
        "- Do not use AskUserQuestion.",
        "- Route questions to lead via dead-drop send.",
        "- Execute exactly the incoming task.",
        "- Send one summary message when done." >>)

\* _build_history_block (the same text in claude_swarm _build_prompt)
HistoryBlock(history_snapshot) ==
    JoinWith("\n", <<
        Repeat("=", 20) \o " RECENT HISTORY (rolling buffer) " \o Repeat("=", 20),
        "The following is your captured stream-json history from before compaction.",
        "Use it to restore recent context and avoid redoing completed work.",
        Repeat("=", 74),
        history_snapshot,
        Repeat("=", 23) \o " END RECENT HISTORY " \o Repeat("=", 29) >>)

\* The message pop_next_message returned for a row: is_broadcast is the
\* SELECT branch that found it, the timestamp the text of the row's.
IsBroadcast(m) == m.to_agent = Broadcast

\* _build_incoming_section, and the same section of claude_swarm under its
\* own heading
IncomingSection(heading, m) ==
    JoinWith("\n", <<
        heading,
        "- id: " \o ToString(m.id),
        "- from: " \o m.from_agent,
        "- timestamp: " \o IsoFormat(m.timestamp),
        "- broadcast: " \o BoolText(IsBroadcast(m)),
        "",
        m.content >>)

\* The history block goes in when the flag is set and the buffer holds text.
HistorySections ==
    IF inject_history_next_turn /\ BufferLen > 0
    THEN << HistoryBlock(JoinWith("", chunks)) >>
    ELSE << >>

\* "\n\n".join(s for s in sections if s.strip())
JoinSections(sections) == JoinWith("\n\n", SelectSeq(sections, LAMBDA t : Strip(t) # ""))

\* minion_swarm _build_watcher_prompt: the sections joined, then cut to the
\* first max_prompt_chars characters.
BuildWatcherPrompt(m) ==
    LET whole == JoinSections(<< Strip(agent_cfg.system), ProtocolSection(Self) >>
                              \o HistorySections
                              \o << RulesSection(Self, agent_cfg.role),
                                    IncomingSection("Incoming message:", m) >>)
    IN IF Len(whole) > agent_cfg.max_prompt_chars
       THEN SubSeq(whole, 1, agent_cfg.max_prompt_chars)
       ELSE whole

\* claude_swarm _build_prompt
BuildPrompt(m) ==
    JoinSections(<< Strip(agent_cfg.system) >> \o HistorySections
                 \o << ClaudeSwarmRules, IncomingSection("Incoming dead-drop message:", m) >>)

\* What the agent's configuration gives the builders: the system text, the
\* role, the prompt limit.
PromptConfigs ==
    {[system |-> "", role |-> "coder", max_prompt_chars |-> 100000],
     [system |-> "  You are alice, a coder.\n", role |-> "coder", max_prompt_chars |-> 1000],
     [system |-> "\r\n", role |-> "coder", max_prompt_chars |-> 1000],
     [system |-> "You are alice, the lead.", role |-> "lead", max_prompt_chars |-> 1000]}

\* What other agents send, and the lines an invocation writes to its output.
PromptContents == {"do X", "review the change\n\nthen report: " \o Repeat("z", 30)}
Outputs == {<<>>, <<"auto-compact: summarized prior turns\n">>, <<Repeat("w", 50) \o "\n">>,
            <<"plan the change\n", "summarized prior turns\n">>}

\* The history budget of the prompt specification, in tokens.
PromptHistoryTokens == 10

\* The supervisor before run() in the two loops that build a prompt from a
\* dequeued message, with a configuration and an empty buffer.
PromptInit ==
    /\ StoreInit
    /\ CallerInit
    /\ agentOf = [p \in Procs |-> IF p = "p1" THEN "alice" ELSE "bob"]
    /\ variant \in {"claude_swarm", "watcher"}
    /\ provider = "claude" /\ poll_script = TRUE
    /\ state_file = NoFile
    /\ RunnerIdle
    /\ CallsIdle
    /\ StreamIdle
    /\ snapshots = <<>>
    /\ agent_cfg \in PromptConfigs
    /\ prompt = ""
    /\ waited = 0
    /\ max_chars = PromptHistoryTokens * 4
    /\ chunks = <<>> /\ total_chars = 0 /\ history = <<>> /\ snap = ""
    /\ dpc = "start"
    /\ stop_event = FALSE /\ signalled = FALSE
    /\ store_failed = FALSE /\ raised = FALSE
    /\ consecutive_failures = 0
    /\ last_error = NULL
    /\ resume_ready = FALSE
    /\ inject_history_next_turn = FALSE
    /\ buffer_nonempty = FALSE
    /\ message = 0
    /\ lead = NULL
    /\ cmd = "none"
    /\ attempts = <<>>
    /\ handed = <<>>
    /\ change_signal = FALSE

PromptFrame == UNCHANGED <<runVars, waited, callVars, rendered, console, displayed_chars,
                           hidden_chars, snapshots, agent_cfg>>

\* Another agent sends the supervisor a direct or a broadcast message.
PromptSend(to_agent, content) ==
    /\ Cardinality(InboxRows) < MaxPromptInbox
    /\ dpc \notin {"done", "crashed"}
    /\ SendMessage("lead", to_agent, content, NULL)
    /\ \E sig \in Notified : change_signal' = sig
    /\ UNCHANGED <<variant, provider, lead, poll_script, dpc, stop_event, signalled,
                   store_failed, raised, consecutive_failures, last_error, resume_ready,
                   inject_history_next_turn, buffer_nonempty, message, cmd, attempts,
                   handed, state_file, bufferVars, prompt>>
    /\ PromptFrame

\* The working branch, after the registry update, with the prompt it
\* builds for the dequeued message.
PromptWorking ==
    /\ WorkingWriteState
    /\ prompt' = IF variant = "watcher" THEN BuildWatcherPrompt(messages[message])
                 ELSE BuildPrompt(messages[message])
    /\ snap' = IF HistorySections # << >> THEN JoinWith("", chunks) ELSE snap
    /\ UNCHANGED <<max_chars, chunks, total_chars, history>>
    /\ PromptFrame

\* self.buffer.append(line) for every line of the output, in order.
RECURSIVE AppendLines(_, _, _)
AppendLines(cs, total, lines) ==
    IF lines = <<>> THEN <<cs, total>>
    ELSE LET after == Evict(Append(cs, Head(lines)), total + Len(Head(lines)), max_chars)
         IN AppendLines(after[1], after[2], Tail(lines))

\* The invocation returns; the lines it wrote went through buffer.append
\* and _render_stream_line one by one.
PromptReturn(lines, code) ==
    LET after == AppendLines(chunks, total_chars, lines)
        o == [exit_code |-> code, timed_out |-> FALSE,
              compaction_detected |->
                  \E k \in 1..Len(lines) : ContainsCompactionMarker(lines[k]),
              buffer |-> IF lines = <<>> THEN "same"
                         ELSE IF after[2] > 0 THEN "nonempty" ELSE "empty"]
    IN /\ dpc = "exec"
       /\ ExecSuccess(o, "ok") \/ ExecFailure(o)
       /\ chunks' = after[1]
       /\ total_chars' = after[2]
       /\ history' = history \o lines
       /\ UNCHANGED <<max_chars, snap, prompt>>
       /\ PromptFrame

PromptNext ==
    \/ RunStartWatcher("ok") /\ UNCHANGED <<bufferVars, prompt>> /\ PromptFrame
    \/ StartWriteState /\ UNCHANGED <<bufferVars, prompt>> /\ PromptFrame
    \/ LoopCheck /\ UNCHANGED <<bufferVars, prompt>> /\ PromptFrame
    \/ Pop("ok") /\ UNCHANGED <<bufferVars, prompt>> /\ PromptFrame
    \/ PopTouch("ok") /\ UNCHANGED <<bufferVars, prompt>> /\ PromptFrame
    \/ PopCommit("ok") /\ UNCHANGED <<bufferVars, prompt>> /\ PromptFrame
    \/ Idle("ok") /\ UNCHANGED <<bufferVars, prompt>> /\ PromptFrame
    \/ IdleWriteState /\ UNCHANGED <<bufferVars, prompt>> /\ PromptFrame
    \/ WaitReturn /\ UNCHANGED <<bufferVars, prompt>> /\ PromptFrame
    \/ Working("ok") /\ UNCHANGED <<bufferVars, prompt>> /\ PromptFrame
    \/ PromptWorking
    \/ \E lines \in Outputs, code \in {0, 1} : PromptReturn(lines, code)
    \/ SuccessWriteState /\ UNCHANGED <<bufferVars, prompt>> /\ PromptFrame
    \/ (AlertFind("ok") \/ AlertLead("ok") \/ BackoffReturn) /\ UNCHANGED <<bufferVars, prompt>> /\ PromptFrame
    \/ \E c \in PromptContents : PromptSend(IF c = "do X" THEN Self ELSE Broadcast, c)

SpecPrompt == PromptInit /\ [][PromptNext]_vars

\* ------------------------------------------------------- claims, the prompts

\* The sections a prompt for message m is to hold, in the loop at hand.
SectionsFor(m) ==
    (IF Strip(agent_cfg.system) = "" THEN << >> ELSE << Strip(agent_cfg.system) >>)
    \o (IF variant = "watcher"
        THEN << ProtocolSection(Self), RulesSection(Self, agent_cfg.role) >>
        ELSE << ClaudeSwarmRules >>)

\* C33: the prompt built for a dequeued message holds the complete message
\* body, the system text, the protocol and rules text and, when the history
\* flag was set and the buffer held text, the history block with the
\* buffer's snapshot, whatever the sizes of the snapshot and of the message.
PromptHasWholeMessage ==
    [][dpc = "working_set" /\ dpc' = "exec" =>
          /\ Contains(prompt', messages[message].content)
          /\ \A k \in 1..Len(SectionsFor(messages[message])) :
                Contains(prompt', SectionsFor(messages[message])[k])
          /\ inject_history_next_turn /\ total_chars > 0 =>
                Contains(prompt', HistoryBlock(JoinWith("", chunks)))]_vars

\* ---------------------------------------------------------------- the alerts

\* Messages other agents send the supervisor in the alert specification.
MaxAlertInbox == 3

\* clock readings followed in a run of SpecAlert
MaxAlertClock == 1

\* The supervisor before run() with the role its configuration gives it;
\* bob, another agent, may register as a lead at any time.
AlertInit ==
    /\ StoreInit
    /\ CallerInit
    /\ agentOf = [p \in Procs |-> IF p = "p1" THEN "alice" ELSE "bob"]
    /\ variant \in {"claude_swarm", "watcher"}
    /\ provider = "claude" /\ poll_script = TRUE
    /\ state_file = NoFile
    /\ RunnerIdle
    /\ CallsIdle
    /\ StreamIdle
    /\ snapshots = <<>>
    /\ agent_cfg \in {[NoConfig EXCEPT !.role = role] : role \in {"coder", "lead"}}
    /\ prompt = ""
    /\ waited = 0
    /\ max_chars = 0
    /\ BufferEmpty
    /\ dpc = "start"
    /\ stop_event = FALSE /\ signalled = FALSE
    /\ store_failed = FALSE /\ raised = FALSE
    /\ consecutive_failures = 0
    /\ last_error = NULL
    /\ resume_ready = FALSE
    /\ inject_history_next_turn = FALSE
    /\ buffer_nonempty = FALSE
    /\ message = 0
    /\ lead = NULL
    /\ cmd = "none"
    /\ attempts = <<>>
    /\ handed = <<>>
    /\ change_signal = FALSE

AlertNext ==
    \/ RunStartWatcher("ok") /\ UNCHANGED <<runVars, extraVars>>
    \/ StartWriteState /\ UNCHANGED <<runVars, extraVars>>
    \/ LoopCheck /\ UNCHANGED <<runVars, extraVars>>
    \/ Pop("ok") /\ UNCHANGED <<runVars, extraVars>>
    \/ PopTouch("ok") /\ UNCHANGED <<runVars, extraVars>>
    \/ PopCommit("ok") /\ UNCHANGED <<runVars, extraVars>>
    \/ Idle("ok") /\ UNCHANGED <<runVars, extraVars>>
    \/ IdleWriteState /\ UNCHANGED <<runVars, extraVars>>
    \/ WaitReturn /\ UNCHANGED <<runVars, extraVars>>
    \/ Working("ok") /\ UNCHANGED <<runVars, extraVars>>
    \/ WorkingWriteState /\ UNCHANGED <<runVars, extraVars>>
    \/ \E o \in LiveOutcomes : ExecSuccess(o, "ok") /\ UNCHANGED <<runVars, extraVars>>
    \/ SuccessWriteState /\ UNCHANGED <<runVars, extraVars>>
    \/ \E o \in LiveOutcomes : ExecFailure(o) /\ UNCHANGED <<runVars, extraVars>>
    \/ AlertFind("ok") /\ UNCHANGED <<runVars, extraVars>>
    \/ AlertLead("ok") /\ UNCHANGED <<runVars, extraVars>>
    \/ BackoffReturn /\ UNCHANGED <<runVars, extraVars>>
    \/ EnvSend(Self, MaxAlertInbox) /\ UNCHANGED <<runVars, extraVars>>
    \/ ClockTick(MaxAlertClock)
    \/ RegisterCall("p2", "lead", "the lead", "online")

SpecAlert == AlertInit /\ [][AlertNext]_vars

\* ------------------------------------------------------- claims, the alerts

\* C37: no alert of the supervisor is addressed to the supervisor's own
\* agent, whatever the registry holds.
AlertNeverToSelf == \A i \in AlertRows : messages[i].to_agent # Self

\* -------------------------------------------- claims, snapshots at the waits

\* The supervisor blocks: wait_for_update, _poll_inbox, the backoff sleep.
AtWaitPoint == dpc \in {"wait", "polling", "backoff"}

\* C38: at every wait point the snapshot file is a payload of this run and
\* records the resume_ready and consecutive_failures the supervisor holds.
SnapshotCurrentAtWaits ==
    AtWaitPoint =>
        /\ state_file \notin {NoFile, Truncated, Undecodable, NonObject}
        /\ state_file.resume_ready = resume_ready
        /\ state_file.consecutive_failures = consecutive_failures

\* In the backoff sleep after a resume invocation was downgraded and the
\* fresh one failed: the session loaded at start is no longer resumable.
WitnessSnapshotCurrentAtWaits ==
    /\ dpc = "backoff"
    /\ Len(attempts) = 2
    /\ attempts[1].resumes
    /\ ~resume_ready
    /\ consecutive_failures >= 1
    /\ state_file = Snapshot("error", consecutive_failures, FALSE)

\* ------------------------------------------------- the store, every operation

\* Rows the callers insert in the specification of all store operations.
MaxStoreRows == 2

\* set_agent_status(status): one UPDATE, one transaction.
SetStatusCall(p, status) ==
    /\ pc[p] = "idle"
    /\ agents' = SetAgentStatus(agentOf[p], status)
    /\ ret' = Returned(p, "set_agent_status", <<status>>, NULL)
    /\ UNCHANGED <<messages, broadcast_reads, now, ghostVars, callerVars,
                   daemonVars, runVars, waited, bufferVars, events, streamVars, snapshots,
                   agent_cfg, prompt>>

\* find_lead_agent(): one SELECT, nothing written.
FindLeadCall(p) ==
    /\ pc[p] = "idle"
    /\ \E found \in FindLeadAgent : ret' = Returned(p, "find_lead_agent", <<>>, found)
    /\ UNCHANGED <<storeVars, ghostVars, callerVars, daemonVars, runVars, waited,
                   bufferVars, events, streamVars, snapshots,
                   agent_cfg, prompt>>

\* Two processes under their own names: both register and pop, in any order;
\* the first also sets its status, counts and looks for the lead, the second
\* sends to the first or to all.
StoreNext ==
    \/ \E p \in Procs : RegisterCall(p, "lead", "daemon agent", "online")
    \/ SetStatusCall(Reader, "idle")
    \/ \E p \in Procs : PopCallEnter(p)
    \/ \E p \in Procs : PopCallSelect(p)
    \/ \E p \in Procs : PopCall(p)
    \/ UnreadCountDirect(Reader)
    \/ UnreadCountCall(Reader)
    \/ FindLeadCall(Reader)
    \/ \E to_agent \in {agentOf[Reader], Broadcast} :
          SendCall("p2", to_agent, NULL, MaxStoreRows)

SpecStore == CallsInit /\ [][StoreNext]_vars

\* ------------------------------------------------------- claims, the store

\* The step is the return of pop_next_message, called for agent a, with
\* message id.
PoppedBy(a, id) ==
    /\ ret' # ret
    /\ ret'.op = "pop_next_message"
    /\ agentOf[ret'.caller] = a
    /\ ret'.value = id

StoreGrows ==
    /\ Len(messages') >= Len(messages)
    /\ broadcast_reads \subseteq broadcast_reads'
    /\ \A n \in Names : agents[n] # NoEntry => agents'[n] # NoEntry

RowsKept ==
    \A i \in 1..Len(messages) :
        /\ i <= Len(messages')
        /\ messages'[i].id = messages[i].id
        /\ messages'[i].from_agent = messages[i].from_agent
        /\ messages'[i].to_agent = messages[i].to_agent
        /\ messages'[i].content = messages[i].content
        /\ messages'[i].read_flag # messages[i].read_flag =>
              /\ messages[i].read_flag = 0
              /\ messages'[i].read_flag = 1
              /\ PoppedBy(messages[i].to_agent, messages[i].id)

\* C39: no step of a store operation removes an agent entry, a message or a
\* broadcast marker or changes a row's id, sender, recipient or content; a
\* read_flag changes only from 0 to 1, in a pop_next_message of the agent the
\* row is addressed to that returns the row.
StoreOnlyGrows == [][StoreGrows /\ RowsKept]_vars

\* Both agents registered, a direct row consumed by its recipient's pop and a
\* broadcast marker written.
WitnessStoreOnlyGrows ==
    /\ \A a \in AgentNames : agents[a] # NoEntry
    /\ broadcast_reads # {}
    /\ \E i \in 1..Len(messages) :
          /\ messages[i].read_flag = 1
          /\ ret.op = "pop_next_message"
          /\ ret.value = messages[i].id
          /\ agentOf[ret.caller] = messages[i].to_agent

====
